---- MODULE Spec2Model ----
(***************************************************************************)
(* The emulated blockchain: the Blockchain facade (blockchain.go) over     *)
(* the Badger store (storage/badger/store.go).  The mutating operations of *)
(* the facade run under the facade mutex, so in the specification of the   *)
(* facade one action is one call.  The store's checkpoints and jumps are   *)
(* also specified statement by statement, and the facade's use of its      *)
(* mutex goroutine by goroutine.  The server backend (SendTransaction with *)
(* automine) is specified handler by handler, and the determinism of the   *)
(* pipeline by two runs started from one committed state.                  *)
(***************************************************************************)
EXTENDS Integers, Sequences, FiniteSets, TLC

\* ------------------------------------------------------------------ bounds
MaxTx == 2          \* user transactions that clients may submit
MaxHeight == 2      \* blocks are committed up to this height
MaxContexts == 1    \* named snapshots JumpToContext may be called with
MaxTime == 1        \* wall-clock readings a pending block may be stamped with
MaxFaults == 1      \* store failures (Badger transaction, checkpoint) injected
MaxJumps == 2       \* calls of JumpToContext
MaxCommits == 3     \* calls of Store.CommitBlock made on the store directly
MaxCallers == 2     \* goroutines calling the facade concurrently
MaxSkew == 1        \* how far the clock of a second run is ahead of the first's

TxIDs == 1..MaxTx
Contexts == 1..MaxContexts
Timestamps == 1..MaxTime
Registers == {"a", "b"}
Callers == 1..MaxCallers

\* error values returned by the calls
OK == "nil"
ErrMidExecution == "PendingBlockMidExecution"
ErrDuplicate == "DuplicateTransaction"
ErrCommitBeforeExecution == "PendingBlockCommitBeforeExecution"
ErrExhausted == "PendingBlockTransactionsExhausted"
ErrStorage == "StorageError"
ErrValidation == "ValidationError"
ErrVMFatal == "VMFatal"
ErrCheckpoint == "CheckpointError"
ErrExecution == "ExecutionError"
ErrAccountEvent == "NoAccountCreatedEvent"
ErrCountMismatch == "CountMismatch"
ErrBlockNotFound == "BlockNotFoundByHeight"
ErrAccountNotFound == "AccountNotFound"
\* not an error value: the call does not return, the goroutine panics
Panic == "panic: nil pointer dereference"
\* what a call that has not returned yet has returned
InProgress == "inProgress"

\* register values are byte strings; a deleted register has the nil value
Nil == <<>>
\* storage.ErrNotFound, and the height that stands for "no height"
NotFound == "notFound"
NoHeight == 0 - 1

\* ------------------------------------------------------------ small helpers
Range(s) == {s[i] : i \in DOMAIN s}
IsIn(x, s) == \E i \in DOMAIN s : s[i] = x
Put(f, k, v) == [x \in (DOMAIN f) \cup {k} |-> IF x = k THEN v ELSE f[x]]
Last(s) == s[Len(s)]

\* ---------------------------------------------------------------- the VM
\* The virtual machine is an external collaborator.  What a transaction does
\* is a function of the transaction and of the ledger view it runs on; whether
\* the engine itself fails is an input of the call.

\* the transaction CreateAccount builds on top of the block at height h
AcctTx(h) == MaxTx + 1 + h
IsAcctTx(tx) == tx > MaxTx

\* vm.Run(ctx, tx, view): account creation writes "b" and emits
\* AccountCreated; an odd user transaction writes its id to "a"; an even one
\* deletes "a", and reverts when there is nothing to delete
VMRun(tx, view) ==
    IF IsAcctTx(tx)
    THEN [errorCode |-> 0, writes |-> [r \in {"b"} |-> <<tx>>],
          eventTypes |-> <<"AccountCreated">>]
    ELSE IF tx % 2 = 1
    THEN [errorCode |-> 0, writes |-> [r \in {"a"} |-> <<tx>>],
          eventTypes |-> <<"Ev">>]
    ELSE IF view["a"] = Nil
    THEN [errorCode |-> 1, writes |-> <<>>, eventTypes |-> <<>>]
    ELSE [errorCode |-> 0, writes |-> [r \in {"a"} |-> Nil],
          eventTypes |-> <<"Ev", "Ev">>]

\* ------------------------------------------------------------------ blocks
\* Block.ID(): a digest of the header (height, parent, timestamp, and the hash
\* of the payload, which lists the transactions)
BlockID(block) == <<block.height, block.parentID, block.timestamp, block.txIDs>>

GenesisBlock == [height |-> 0, parentID |-> <<>>, timestamp |-> 0, txIDs |-> <<>>]

\* ------------------------------------------------------------ the key space
EmptyDB ==
    [blocks |-> <<>>, blockIDs |-> <<>>, latest |-> NoHeight,
     collections |-> {}, txs |-> {}, results |-> <<>>,
     ledgerVal |-> <<>>, ledgerClog |-> <<>>, events |-> {}]

\* ---------------------------------------------------------- the changelog
\* changelog.getMostRecentChange: the largest recorded height <= h
getMostRecentChange(cl, r, h) ==
    IF r \notin DOMAIN cl THEN NoHeight
    ELSE LET hs == {x \in Range(cl[r]) : x <= h}
         IN IF hs = {} THEN NoHeight
            ELSE CHOOSE x \in hs : \A y \in hs : y <= x

\* changelog.addChange: record that r changed at height h
addChange(cl, r, h) ==
    IF r \notin DOMAIN cl THEN Put(cl, r, <<h>>)
    ELSE IF IsIn(h, cl[r]) THEN cl
    ELSE Put(cl, r, Append(cl[r], h))

\* ------------------------------------------------------------- store reads
\* Store.LatestBlock
LatestBlock(d, open) ==
    IF ~open THEN [err |-> ErrStorage]
    ELSE IF d.latest = NoHeight \/ d.latest \notin DOMAIN d.blocks
         THEN [err |-> NotFound]
    ELSE [err |-> OK, block |-> d.blocks[d.latest]]

\* Store.BlockByHeight
BlockByHeight(d, open, h) ==
    IF ~open THEN [err |-> ErrStorage]
    ELSE IF h \notin DOMAIN d.blocks THEN [err |-> NotFound]
    ELSE [err |-> OK, block |-> d.blocks[h]]

\* Store.BlockByID
BlockByID(d, open, id) ==
    IF ~open THEN [err |-> ErrStorage]
    ELSE IF id \notin DOMAIN d.blockIDs THEN [err |-> NotFound]
    ELSE BlockByHeight(d, open, d.blockIDs[id])

\* Store.TransactionByID
TransactionByID(d, open, tx) ==
    IF ~open THEN ErrStorage
    ELSE IF tx \in d.txs THEN OK ELSE NotFound

\* Store.TransactionResultByID
TransactionResultByID(d, open, tx) ==
    IF ~open THEN [err |-> ErrStorage]
    ELSE IF tx \notin DOMAIN d.results THEN [err |-> NotFound]
    ELSE [err |-> OK, result |-> d.results[tx]]

\* Store.LedgerViewByHeight(h) reading register r
LedgerViewRead(d, cl, open, h, r) ==
    LET lastChangedBlock == getMostRecentChange(cl, r, h)
    IN IF ~open THEN [err |-> ErrStorage, value |-> Nil]
       ELSE IF <<r, lastChangedBlock>> \notin DOMAIN d.ledgerVal
            THEN [err |-> OK, value |-> Nil]
       ELSE [err |-> OK, value |-> d.ledgerVal[<<r, lastChangedBlock>>]]

\* the event types, in the byte order of their names
EventTypes == <<"AccountCreated", "Ev">>
TypeRank(t) == CHOOSE i \in DOMAIN EventTypes : EventTypes[i] = t

\* the byte order of two event keys of one block: transaction index, event
\* index, then type
KeyLess(e, f) ==
    \/ e.txIndex < f.txIndex
    \/ e.txIndex = f.txIndex /\ e.eventIndex < f.eventIndex
    \/ /\ e.txIndex = f.txIndex /\ e.eventIndex = f.eventIndex
       /\ TypeRank(e.type) < TypeRank(f.type)

\* the iterator over a set of event keys, in key order
RECURSIVE ScanEvents(_)
ScanEvents(keys) ==
    IF keys = {} THEN <<>>
    ELSE LET scanFrom(first) == <<first>> \o ScanEvents(keys \ {first})
         IN scanFrom(CHOOSE e \in keys : \A f \in keys : f = e \/ KeyLess(e, f))

\* Store.EventsByHeight; the empty eventType selects every event
HasType(e, eventType) == eventType = "" \/ e.type = eventType
EventsByHeight(d, open, blockHeight, eventType) ==
    IF ~open THEN [err |-> ErrStorage, events |-> <<>>]
    ELSE [err |-> OK,
          events |-> SelectSeq(ScanEvents({e \in d.events : e.height = blockHeight}),
                               LAMBDA e : HasType(e, eventType))]

\* ------------------------------------------------------------ store writes
\* insertEvents building the key without the transaction index
insertEvents_KeyWithoutTxIndex(d, h, events) ==
    [d EXCEPT !.events = @ \cup
        {[height |-> h, txIndex |-> 0,
          eventIndex |-> events[i].eventIndex, type |-> events[i].type] :
         i \in DOMAIN events}]

\* store(block) with the comparison of the heights made strict
store_StrictLatest(d, block) ==
    LET latestBlockHeight == IF d.latest = NoHeight THEN 0 ELSE d.latest
    IN [d EXCEPT !.blocks = Put(@, block.height, block),
                 !.blockIDs = Put(@, BlockID(block), block.height),
                 !.latest = IF block.height > latestBlockHeight
                            THEN block.height ELSE @]

\* store(block) setting the latest pointer whatever the height
store_AlwaysLatest(d, block) ==
    [d EXCEPT !.blocks = Put(@, block.height, block),
              !.blockIDs = Put(@, BlockID(block), block.height),
              !.latest = block.height]

\* store(block): the block by height, the id index and the latest pointer
store(d, block) ==
    LET latestBlockHeight == IF d.latest = NoHeight THEN 0 ELSE d.latest
    IN [d EXCEPT !.blocks = Put(@, block.height, block),
                 !.blockIDs = Put(@, BlockID(block), block.height),
                 !.latest = IF block.height >= latestBlockHeight
                            THEN block.height ELSE @]

\* Store.StoreBlock: store(block) in a Badger transaction of its own
StoreBlock(d, open, block, txnOK) ==
    IF ~open \/ ~txnOK THEN [err |-> ErrStorage, db |-> d]
    ELSE [err |-> OK, db |-> store(d, block)]

\* insertLedgerDelta: every updated register gets a changelog entry at h and
\* its changelist is persisted; only a non-nil value is written
insertLedgerDelta(d, cl, h, delta) ==
    LET ncl == [r \in (DOMAIN cl) \cup (DOMAIN delta) |->
                  IF r \in DOMAIN delta THEN addChange(cl, r, h)[r] ELSE cl[r]]
        written == {r \in DOMAIN delta : delta[r] # Nil}
        nval == [k \in (DOMAIN d.ledgerVal) \cup {<<r, h>> : r \in written} |->
                  IF k[2] = h /\ k[1] \in written THEN delta[k[1]]
                  ELSE d.ledgerVal[k]]
        nclog == [r \in (DOMAIN d.ledgerClog) \cup (DOMAIN delta) |->
                  IF r \in DOMAIN delta THEN ncl[r] ELSE d.ledgerClog[r]]
    IN [db |-> [d EXCEPT !.ledgerVal = nval, !.ledgerClog = nclog],
        changelog |-> ncl]

\* Store.InsertLedgerDelta: insertLedgerDelta in a Badger transaction of its
\* own; the in-memory changelog is updated while the transaction runs and
\* stays so when the transaction does not commit
StoreInsertLedgerDelta(d, cl, open, h, delta, txnOK) ==
    LET ld == insertLedgerDelta(d, cl, h, delta)
    IN IF ~open THEN [err |-> ErrStorage, db |-> d, changelog |-> cl]
       ELSE IF ~txnOK
       THEN [err |-> ErrStorage, db |-> d, changelog |-> ld.changelog]
       ELSE [err |-> OK, db |-> ld.db, changelog |-> ld.changelog]

\* insertEvents: one entry per event under (height, tx index, event index, type)
insertEvents(d, h, events) ==
    [d EXCEPT !.events = @ \cup
        {[height |-> h, txIndex |-> events[i].txIndex,
          eventIndex |-> events[i].eventIndex, type |-> events[i].type] :
         i \in DOMAIN events}]

\* Store.CommitBlock comparing the counts only after the Badger transaction
StoreCommitBlock_CountCheckAfterWrite(d, cl, open, block, collections, transactions, results, delta, events, txnOK, ckOK) ==
    LET d1 == store(d, block)
        ld == insertLedgerDelta(d1, cl, block.height, delta)
    IN IF ~open \/ ~txnOK
       THEN [err |-> ErrStorage, db |-> d, changelog |-> cl, applied |-> <<>>]
       ELSE IF Cardinality(transactions) # Cardinality(DOMAIN results)
       THEN [err |-> ErrCountMismatch, db |-> ld.db, changelog |-> ld.changelog,
             applied |-> <<>>]
       ELSE [err |-> OK, db |-> ld.db, changelog |-> ld.changelog,
             applied |-> <<[height |-> block.height, delta |-> delta]>>]

\* Store.CommitBlock.  txnOK: the Badger transaction commits; ckOK: the
\* checkpoint (newCommit) taken after it succeeds.  applied lists the ledger
\* delta the Badger transaction committed, if it did.
StoreCommitBlock(d, cl, open, block, collections, transactions, results, delta, events, txnOK, ckOK) ==
    IF Cardinality(transactions) # Cardinality(DOMAIN results)
    THEN [err |-> ErrCountMismatch, db |-> d, changelog |-> cl, applied |-> <<>>]
    ELSE IF ~open
    THEN [err |-> ErrStorage, db |-> d, changelog |-> cl, applied |-> <<>>]
    ELSE
      LET d1 == store(d, block)
          d2 == [d1 EXCEPT !.collections = @ \cup Range(collections),
                           !.txs = @ \cup transactions,
                           !.results = [t \in (DOMAIN @) \cup (DOMAIN results) |->
                                IF t \in DOMAIN results THEN results[t] ELSE @[t]]]
          ld == insertLedgerDelta(d2, cl, block.height, delta)
          d3 == insertEvents(ld.db, block.height, events)
          done == <<[height |-> block.height, delta |-> delta]>>
      IN IF ~txnOK
         THEN [err |-> ErrStorage, db |-> d, changelog |-> ld.changelog,
               applied |-> <<>>]
         ELSE IF ~ckOK
         THEN [err |-> ErrCheckpoint, db |-> d3, changelog |-> ld.changelog,
               applied |-> done]
         ELSE [err |-> OK, db |-> d3, changelog |-> ld.changelog,
               applied |-> done]

\* --------------------------------------------------------- the pending block
newPendingBlock(prevBlock, ts) ==
    [height |-> prevBlock.height + 1, parentID |-> BlockID(prevBlock),
     timestamp |-> ts, viewHeight |-> prevBlock.height, txIDs |-> <<>>,
     results |-> <<>>, events |-> <<>>, delta |-> <<>>, index |-> 0]

Size(pb) == Len(pb.txIDs)
Empty(pb) == Size(pb) = 0
ExecutionStarted(pb) == pb.index > 0
ExecutionComplete(pb) == pb.index >= Size(pb)
ContainsTransaction(pb, tx) == IsIn(tx, pb.txIDs)
pbAddTransaction(pb, tx) == [pb EXCEPT !.txIDs = Append(@, tx)]

\* pendingBlock.Block(): the header and the guarantee of its one collection
pbBlock(pb) ==
    [height |-> pb.height, parentID |-> pb.parentID,
     timestamp |-> pb.timestamp, txIDs |-> pb.txIDs]

Collections(pb) == IF Empty(pb) THEN <<>> ELSE <<pb.txIDs>>

\* the pending block's ledger view: its own uncommitted writes over the
\* store's view at the height of the block it is anchored on
pbView(pb, d, cl, open) ==
    [r \in Registers |->
        IF r \in DOMAIN pb.delta THEN pb.delta[r]
        ELSE LedgerViewRead(d, cl, open, pb.viewHeight, r).value]

\* the events of a procedure, stamped with the transaction's index in the block
StampEvents(tx, txIndex, eventTypes) ==
    [i \in DOMAIN eventTypes |->
        [txIndex |-> txIndex, eventIndex |-> i - 1, type |-> eventTypes[i],
         tx |-> tx]]

\* pendingBlock.ExecuteNextTransaction, the VM having returned procedure tp
pbExecuteNextTransaction(pb, tp) ==
    LET tx == pb.txIDs[pb.index + 1]
        evs == StampEvents(tx, pb.index, tp.eventTypes)
    IN [pb EXCEPT
          !.index = @ + 1,
          !.results = Put(@, tx, [errorCode |-> tp.errorCode, events |-> evs]),
          !.events = @ \o evs,
          !.delta = [r \in (DOMAIN @) \cup (DOMAIN tp.writes) |->
                       IF r \in DOMAIN tp.writes THEN tp.writes[r] ELSE @[r]]]

\* ------------------------------------------------------- the facade's steps
\* addTransaction without the check that execution has started
addTransaction_NoStartedCheck(pb, d, open, tx, valid) ==
    IF ContainsTransaction(pb, tx) THEN [err |-> ErrDuplicate, pb |-> pb]
    ELSE IF TransactionByID(d, open, tx) = OK THEN [err |-> ErrDuplicate, pb |-> pb]
    ELSE IF TransactionByID(d, open, tx) # NotFound THEN [err |-> ErrStorage, pb |-> pb]
    ELSE IF ~valid THEN [err |-> ErrValidation, pb |-> pb]
    ELSE [err |-> OK, pb |-> pbAddTransaction(pb, tx)]

\* addTransaction without the lookup in the pending block
addTransaction_NoPendingCheck(pb, d, open, tx, valid) ==
    IF ExecutionStarted(pb) THEN [err |-> ErrMidExecution, pb |-> pb]
    ELSE IF TransactionByID(d, open, tx) = OK THEN [err |-> ErrDuplicate, pb |-> pb]
    ELSE IF TransactionByID(d, open, tx) # NotFound THEN [err |-> ErrStorage, pb |-> pb]
    ELSE IF ~valid THEN [err |-> ErrValidation, pb |-> pb]
    ELSE [err |-> OK, pb |-> pbAddTransaction(pb, tx)]

\* addTransaction without the lookup in storage
addTransaction_NoStorageCheck(pb, d, open, tx, valid) ==
    IF ExecutionStarted(pb) THEN [err |-> ErrMidExecution, pb |-> pb]
    ELSE IF ContainsTransaction(pb, tx) THEN [err |-> ErrDuplicate, pb |-> pb]
    ELSE IF ~valid THEN [err |-> ErrValidation, pb |-> pb]
    ELSE [err |-> OK, pb |-> pbAddTransaction(pb, tx)]

\* Blockchain.addTransaction; valid: the transaction validator accepts tx
addTransaction(pb, d, open, tx, valid) ==
    IF ExecutionStarted(pb) THEN [err |-> ErrMidExecution, pb |-> pb]
    ELSE IF ContainsTransaction(pb, tx) THEN [err |-> ErrDuplicate, pb |-> pb]
    ELSE IF TransactionByID(d, open, tx) = OK THEN [err |-> ErrDuplicate, pb |-> pb]
    ELSE IF TransactionByID(d, open, tx) # NotFound THEN [err |-> ErrStorage, pb |-> pb]
    ELSE IF ~valid THEN [err |-> ErrValidation, pb |-> pb]
    ELSE [err |-> OK, pb |-> pbAddTransaction(pb, tx)]

\* executeNextTransaction returning no error when there is nothing left to run
executeNextTransaction_ExhaustedIsNil(pb, d, cl, open, fatal) ==
    IF ExecutionComplete(pb)
    THEN [err |-> OK, pb |-> pb, results |-> <<>>, ran |-> <<>>]
    ELSE IF fatal \/ ~open
    THEN [err |-> ErrVMFatal, pb |-> pb, results |-> <<>>, ran |-> <<>>]
    ELSE LET tx == pb.txIDs[pb.index + 1]
             tp == VMRun(tx, pbView(pb, d, cl, open))
             npb == pbExecuteNextTransaction(pb, tp)
         IN [err |-> OK, pb |-> npb, results |-> <<npb.results[tx]>>,
             ran |-> <<[tx |-> tx, txIndex |-> pb.index]>>]

\* executeNextTransaction handing the VM a transaction index counted from one
executeNextTransaction_IndexFromOne(pb, d, cl, open, fatal) ==
    IF ExecutionComplete(pb)
    THEN [err |-> ErrExhausted, pb |-> pb, results |-> <<>>, ran |-> <<>>]
    ELSE IF fatal \/ ~open
    THEN [err |-> ErrVMFatal, pb |-> pb, results |-> <<>>, ran |-> <<>>]
    ELSE LET tx == pb.txIDs[pb.index + 1]
             tp == VMRun(tx, pbView(pb, d, cl, open))
             npb == pbExecuteNextTransaction(pb, tp)
         IN [err |-> OK, pb |-> npb, results |-> <<npb.results[tx]>>,
             ran |-> <<[tx |-> tx, txIndex |-> pb.index + 1]>>]

\* executeNextTransaction returning a transaction's execution error as the
\* error of the call
executeNextTransaction_RevertIsCallError(pb, d, cl, open, fatal) ==
    IF ExecutionComplete(pb)
    THEN [err |-> ErrExhausted, pb |-> pb, results |-> <<>>, ran |-> <<>>]
    ELSE IF fatal \/ ~open
    THEN [err |-> ErrVMFatal, pb |-> pb, results |-> <<>>, ran |-> <<>>]
    ELSE LET tx == pb.txIDs[pb.index + 1]
             tp == VMRun(tx, pbView(pb, d, cl, open))
             npb == pbExecuteNextTransaction(pb, tp)
         IN [err |-> IF tp.errorCode # 0 THEN ErrExecution ELSE OK, pb |-> npb,
             results |-> <<npb.results[tx]>>,
             ran |-> <<[tx |-> tx, txIndex |-> pb.index]>>]

\* Blockchain.executeNextTransaction; fatal: the VM fails with an engine error.
\* ran records the transaction the VM executed and the index it was given.
executeNextTransaction(pb, d, cl, open, fatal) ==
    IF ExecutionComplete(pb)
    THEN [err |-> ErrExhausted, pb |-> pb, results |-> <<>>, ran |-> <<>>]
    ELSE IF fatal \/ ~open
    THEN [err |-> ErrVMFatal, pb |-> pb, results |-> <<>>, ran |-> <<>>]
    ELSE LET tx == pb.txIDs[pb.index + 1]
             tp == VMRun(tx, pbView(pb, d, cl, open))
             npb == pbExecuteNextTransaction(pb, tp)
         IN [err |-> OK, pb |-> npb, results |-> <<npb.results[tx]>>,
             ran |-> <<[tx |-> tx, txIndex |-> pb.index]>>]

\* the loop of executeBlock: execute until execution is complete; the
\* fatalAt-th execution of the loop fails (none when fatalAt = 0)
RECURSIVE executeRemaining(_, _, _, _, _, _, _)
executeRemaining(pb, d, cl, open, fatalAt, results, ran) ==
    IF ExecutionComplete(pb)
    THEN [err |-> OK, pb |-> pb, results |-> results, ran |-> ran]
    ELSE LET r == executeNextTransaction(pb, d, cl, open, fatalAt = 1)
         IN IF r.err # OK
            THEN [err |-> r.err, pb |-> r.pb, results |-> results, ran |-> ran]
            ELSE executeRemaining(r.pb, d, cl, open, fatalAt - 1,
                                  results \o r.results, ran \o r.ran)

\* executeBlock executing the next transaction only
executeBlock_SingleStep(pb, d, cl, open, fatalAt) ==
    IF Empty(pb) THEN [err |-> OK, pb |-> pb, results |-> <<>>, ran |-> <<>>]
    ELSE IF ExecutionComplete(pb)
    THEN [err |-> ErrExhausted, pb |-> pb, results |-> <<>>, ran |-> <<>>]
    ELSE executeNextTransaction(pb, d, cl, open, fatalAt = 1)

\* Blockchain.executeBlock
executeBlock(pb, d, cl, open, fatalAt) ==
    IF Empty(pb) THEN [err |-> OK, pb |-> pb, results |-> <<>>, ran |-> <<>>]
    ELSE IF ExecutionComplete(pb)
    THEN [err |-> ErrExhausted, pb |-> pb, results |-> <<>>, ran |-> <<>>]
    ELSE executeRemaining(pb, d, cl, open, fatalAt, <<>>, <<>>)

\* commitBlock stamping the block with the clock reading taken at the commit
commitBlock_StampsAtCommit(pb, d, cl, open, txnOK, ckOK, ts) ==
    IF ~ExecutionStarted(pb) /\ ~Empty(pb)
    THEN [err |-> ErrCommitBeforeExecution, pb |-> pb, db |-> d, changelog |-> cl,
          applied |-> <<>>]
    ELSE IF ExecutionStarted(pb) /\ ~ExecutionComplete(pb)
    THEN [err |-> ErrMidExecution, pb |-> pb, db |-> d, changelog |-> cl,
          applied |-> <<>>]
    ELSE LET block == [pbBlock(pb) EXCEPT !.timestamp = ts]
             r == StoreCommitBlock(d, cl, open, block, Collections(pb),
                                   Range(pb.txIDs), pb.results, pb.delta,
                                   pb.events, txnOK, ckOK)
         IN IF r.err # OK
            THEN [err |-> r.err, pb |-> pb, db |-> r.db, changelog |-> r.changelog,
                  applied |-> r.applied]
            ELSE [err |-> OK, pb |-> newPendingBlock(block, ts), db |-> r.db,
                  changelog |-> r.changelog, applied |-> r.applied,
                  block |-> block]

\* commitBlock without the checks of the pending block's execution state
commitBlock_NoStateCheck(pb, d, cl, open, txnOK, ckOK, ts) ==
    LET block == pbBlock(pb)
        r == StoreCommitBlock(d, cl, open, block, Collections(pb),
                              Range(pb.txIDs),
                              [t \in Range(pb.txIDs) |->
                                  IF t \in DOMAIN pb.results THEN pb.results[t]
                                  ELSE [errorCode |-> 0, events |-> <<>>]],
                              pb.delta, pb.events, txnOK, ckOK)
    IN IF r.err # OK
       THEN [err |-> r.err, pb |-> pb, db |-> r.db, changelog |-> r.changelog,
             applied |-> r.applied]
       ELSE [err |-> OK, pb |-> newPendingBlock(block, ts), db |-> r.db,
             changelog |-> r.changelog, applied |-> r.applied,
             block |-> block]

\* commitBlock going on when the store's CommitBlock returned an error
commitBlock_IgnoreStoreError(pb, d, cl, open, txnOK, ckOK, ts) ==
    IF ~ExecutionStarted(pb) /\ ~Empty(pb)
    THEN [err |-> ErrCommitBeforeExecution, pb |-> pb, db |-> d, changelog |-> cl,
          applied |-> <<>>]
    ELSE IF ExecutionStarted(pb) /\ ~ExecutionComplete(pb)
    THEN [err |-> ErrMidExecution, pb |-> pb, db |-> d, changelog |-> cl,
          applied |-> <<>>]
    ELSE LET block == pbBlock(pb)
             r == StoreCommitBlock(d, cl, open, block, Collections(pb),
                                   Range(pb.txIDs), pb.results, pb.delta,
                                   pb.events, txnOK, ckOK)
         IN [err |-> OK, pb |-> newPendingBlock(block, ts), db |-> r.db,
             changelog |-> r.changelog, applied |-> r.applied,
             block |-> block]

\* Blockchain.commitBlock; ts: the clock reading the next pending block gets
commitBlock(pb, d, cl, open, txnOK, ckOK, ts) ==
    IF ~ExecutionStarted(pb) /\ ~Empty(pb)
    THEN [err |-> ErrCommitBeforeExecution, pb |-> pb, db |-> d, changelog |-> cl,
          applied |-> <<>>]
    ELSE IF ExecutionStarted(pb) /\ ~ExecutionComplete(pb)
    THEN [err |-> ErrMidExecution, pb |-> pb, db |-> d, changelog |-> cl,
          applied |-> <<>>]
    ELSE LET block == pbBlock(pb)
             r == StoreCommitBlock(d, cl, open, block, Collections(pb),
                                   Range(pb.txIDs), pb.results, pb.delta,
                                   pb.events, txnOK, ckOK)
         IN IF r.err # OK
            THEN [err |-> r.err, pb |-> pb, db |-> r.db, changelog |-> r.changelog,
                  applied |-> r.applied]
            ELSE [err |-> OK, pb |-> newPendingBlock(block, ts), db |-> r.db,
                  changelog |-> r.changelog, applied |-> r.applied,
                  block |-> block]

\* ResetPendingBlock returning without replacing the pending block
resetPendingBlock_KeepsBlock(pb, d, open, ts) ==
    IF LatestBlock(d, open).err # OK THEN [err |-> ErrStorage, pb |-> pb]
    ELSE [err |-> OK, pb |-> pb]

\* ResetPendingBlock carrying the old block's transactions into the new one
resetPendingBlock_KeepsTransactions(pb, d, open, ts) ==
    LET anchor(latestBlock) ==
          IF latestBlock.err # OK THEN [err |-> ErrStorage, pb |-> pb]
          ELSE [err |-> OK,
                pb |-> [newPendingBlock(latestBlock.block, ts)
                          EXCEPT !.txIDs = pb.txIDs]]
    IN anchor(LatestBlock(d, open))

\* Blockchain.ResetPendingBlock: a new pending block on the latest block
resetPendingBlock(pb, d, open, ts) ==
    LET anchor(latestBlock) ==
          IF latestBlock.err # OK THEN [err |-> ErrStorage, pb |-> pb]
          ELSE [err |-> OK, pb |-> newPendingBlock(latestBlock.block, ts)]
    IN anchor(LatestBlock(d, open))

\* Blockchain.executeAndCommitBlock
executeAndCommitBlock(pb, d, cl, open, fatalAt, txnOK, ckOK, ts) ==
    LET commit(e) ==
          LET result(c) ==
                IF c.err # OK
                THEN [err |-> c.err, pb |-> c.pb, db |-> c.db,
                      changelog |-> c.changelog, applied |-> c.applied,
                      results |-> e.results, ran |-> e.ran, committed |-> FALSE]
                ELSE [err |-> OK, pb |-> c.pb, db |-> c.db,
                      changelog |-> c.changelog, applied |-> c.applied,
                      results |-> e.results, ran |-> e.ran, committed |-> TRUE,
                      block |-> c.block]
          IN IF e.err # OK
             THEN [err |-> e.err, pb |-> e.pb, db |-> d, changelog |-> cl,
                   applied |-> <<>>, results |-> <<>>, ran |-> e.ran,
                   committed |-> FALSE]
             ELSE result(commitBlock(e.pb, d, cl, open, txnOK, ckOK, ts))
    IN commit(executeBlock(pb, d, cl, open, fatalAt))

\* Blockchain.CreateAccount: add the account transaction, execute and commit
\* the block, then commit once more.  fail: the step of the two store commits
\* that fails, if any.  The result tells, next to the error and the address,
\* what the call did: the state it left (pb, db, changelog), the deltas the
\* store committed, the number of blocks committed and the blocks, whether
\* the account transaction was added, and the transactions the VM ran.
CreateAccount(pb, d, cl, open, valid, fatalAt, fail, ts1, ts2) ==
    LET out(err, w, ap, n, added, ran, tx, blocks, address) ==
          [err |-> err, pb |-> w.pb, db |-> w.db, changelog |-> w.changelog,
           applied |-> ap, commits |-> n, added |-> added, ran |-> ran,
           tx |-> tx, blocks |-> blocks, address |-> address]
        w0 == [pb |-> pb, db |-> d, changelog |-> cl]
        withLatest(latestBlock) ==
          IF latestBlock.err # OK
          THEN out(ErrStorage, w0, <<>>, 0, FALSE, <<>>, 0, <<>>, 0)
          ELSE
            LET tx == AcctTx(latestBlock.block.height)
                withAdded(a) ==
                  IF a.err # OK
                  THEN out(a.err, w0, <<>>, 0, FALSE, <<>>, tx, <<>>, 0)
                  ELSE
                    LET withCommitted(ec) ==
                          IF ec.err # OK
                          THEN out(ec.err, ec, ec.applied, 0, TRUE, ec.ran, tx,
                                   <<>>, 0)
                          ELSE
                            LET lastResult == Last(ec.results)
                                created ==
                                  {i \in DOMAIN lastResult.events :
                                     lastResult.events[i].type = "AccountCreated"}
                                withSecond(c2) ==
                                  IF c2.err # OK
                                  THEN out(c2.err, c2, ec.applied \o c2.applied,
                                           1, TRUE, ec.ran, tx, <<ec.block>>, 0)
                                  ELSE IF lastResult.errorCode # 0
                                  THEN out(ErrExecution, c2,
                                           ec.applied \o c2.applied, 2, TRUE,
                                           ec.ran, tx, <<ec.block, c2.block>>, 0)
                                  ELSE IF created = {}
                                  THEN out(ErrAccountEvent, c2,
                                           ec.applied \o c2.applied, 2, TRUE,
                                           ec.ran, tx, <<ec.block, c2.block>>, 0)
                                  ELSE out(OK, c2, ec.applied \o c2.applied, 2,
                                           TRUE, ec.ran, tx,
                                           <<ec.block, c2.block>>,
                                           lastResult.events[
                                             CHOOSE i \in created : TRUE].tx)
                            IN withSecond(commitBlock(ec.pb, ec.db, ec.changelog,
                                                      open, fail # "txn2",
                                                      fail # "ck2", ts2))
                    IN withCommitted(executeAndCommitBlock(
                                       a.pb, d, cl, open, fatalAt,
                                       fail # "txn1", fail # "ck1", ts1))
            IN withAdded(addTransaction(pb, d, open, tx, valid))
    IN withLatest(LatestBlock(d, open))

\* The scripts clients may send: "get" returns the number held by register
\* "a" (0 for no value); "incr" writes that number plus one to "a" and returns
\* what it then reads.  vm.Run leaves the writes of the script in the view.
Scripts == {"get", "incr"}
NumberIn(view) == IF view["a"] = Nil THEN 0 ELSE view["a"][1]
ScriptRun(script, view) ==
    IF script = "get"
    THEN [errorCode |-> 0, value |-> NumberIn(view), writes |-> <<>>]
    ELSE [errorCode |-> 0, value |-> NumberIn(view) + 1,
          writes |-> [r \in {"a"} |-> <<NumberIn(view) + 1>>]]

\* ExecuteScriptAtBlock flushing the writes left in the view into the store
ExecuteScriptAtBlock_CommitsViewWrites(pb, d, cl, open, script, blockHeight, fatal) ==
    LET run(requestedBlock) ==
          IF requestedBlock.err = NotFound
          THEN [err |-> ErrBlockNotFound, value |-> 0, pb |-> pb, db |-> d,
                changelog |-> cl]
          ELSE IF requestedBlock.err # OK
          THEN [err |-> ErrStorage, value |-> 0, pb |-> pb, db |-> d,
                changelog |-> cl]
          ELSE IF fatal
          THEN [err |-> ErrVMFatal, value |-> 0, pb |-> pb, db |-> d,
                changelog |-> cl]
          ELSE LET requestedLedgerView ==
                     [r \in Registers |->
                        LedgerViewRead(d, cl, open, requestedBlock.block.height,
                                       r).value]
                   scriptProc == ScriptRun(script, requestedLedgerView)
                   flushed == insertLedgerDelta(d, cl, requestedBlock.block.height,
                                                scriptProc.writes)
               IN [err |-> OK, value |-> scriptProc.value, pb |-> pb,
                   db |-> flushed.db, changelog |-> flushed.changelog]
    IN run(BlockByHeight(d, open, blockHeight))

\* Blockchain.ExecuteScriptAtBlock: the script runs on a new view over the
\* store at the height of the requested block; the view, with what the
\* script wrote to it, is dropped when the call returns.  fatal: vm.Run
\* returns an error.  The result carries the state the call leaves.
ExecuteScriptAtBlock(pb, d, cl, open, script, blockHeight, fatal) ==
    LET run(requestedBlock) ==
          IF requestedBlock.err = NotFound
          THEN [err |-> ErrBlockNotFound, value |-> 0, pb |-> pb, db |-> d,
                changelog |-> cl]
          ELSE IF requestedBlock.err # OK
          THEN [err |-> ErrStorage, value |-> 0, pb |-> pb, db |-> d,
                changelog |-> cl]
          ELSE IF fatal
          THEN [err |-> ErrVMFatal, value |-> 0, pb |-> pb, db |-> d,
                changelog |-> cl]
          ELSE LET requestedLedgerView ==
                     [r \in Registers |->
                        LedgerViewRead(d, cl, open, requestedBlock.block.height,
                                       r).value]
                   scriptProc == ScriptRun(script, requestedLedgerView)
               IN [err |-> OK, value |-> scriptProc.value, pb |-> pb, db |-> d,
                   changelog |-> cl]
    IN run(BlockByHeight(d, open, blockHeight))

\* Blockchain.ExecuteScript: ExecuteScriptAtBlock at the latest height
ExecuteScript(pb, d, cl, open, script, fatal) ==
    LET atLatest(latestBlock) ==
          IF latestBlock.err # OK
          THEN [err |-> ErrStorage, value |-> 0, pb |-> pb, db |-> d,
                changelog |-> cl, height |-> NoHeight]
          ELSE LET r == ExecuteScriptAtBlock(pb, d, cl, open, script,
                                             latestBlock.block.height, fatal)
               IN [err |-> r.err, value |-> r.value, pb |-> r.pb, db |-> r.db,
                   changelog |-> r.changelog,
                   height |-> latestBlock.block.height]
    IN atLatest(LatestBlock(d, open))

\* The addresses clients may ask for: the service account, which exists from
\* genesis on, and the accounts CreateAccount makes.
ServiceAddress == 0
Addresses == {ServiceAddress} \cup {AcctTx(h) : h \in 0..(MaxHeight - 1)}
NoAccount == [address |-> NoHeight]
\* how vm.GetAccount ends: without an error, or with an error that is not
\* account-not-found and either no account or a partly filled one
Lookups == {"ok", "failedNil", "failedPartial"}

\* vm.GetAccount(ctx, address, view): the account is there when the view
\* holds it; lookup tells whether the engine fails otherwise
VMGetAccount(address, view, lookup) ==
    IF lookup = "failedNil" THEN [err |-> ErrVMFatal, account |-> NoAccount]
    ELSE IF lookup = "failedPartial"
    THEN [err |-> ErrVMFatal, account |-> [address |-> address]]
    ELSE IF address = ServiceAddress \/ view["b"] = <<address>>
    THEN [err |-> OK, account |-> [address |-> address]]
    ELSE [err |-> ErrAccountNotFound, account |-> NoAccount]

\* Blockchain.getAccountAtBlock
getAccountAtBlock(d, cl, open, address, blockHeight, lookup) ==
    LET found(r) ==
          IF r.err = ErrAccountNotFound
          THEN [err |-> ErrAccountNotFound, account |-> NoAccount]
          ELSE [err |-> OK, account |-> r.account]
    IN found(VMGetAccount(address,
                          [r \in Registers |->
                             LedgerViewRead(d, cl, open, blockHeight, r).value],
                          IF open THEN lookup ELSE "failedNil"))

\* Blockchain.GetAccountAtBlock: FlowAccountToSDK(*account) dereferences the
\* account it was given
GetAccountAtBlock(d, cl, open, address, blockHeight, lookup) ==
    LET convert(a) ==
          IF a.err # OK THEN [err |-> a.err, account |-> NoAccount]
          ELSE IF a.account = NoAccount
          THEN [err |-> Panic, account |-> NoAccount]
          ELSE [err |-> OK, account |-> a.account]
    IN convert(getAccountAtBlock(d, cl, open, address, blockHeight, lookup))

\* Blockchain.GetAccount, with getAccount: the lookup at the latest height
GetAccount(d, cl, open, address, lookup) ==
    LET atLatest(latestBlock) ==
          IF latestBlock.err # OK THEN [err |-> ErrStorage, account |-> NoAccount]
          ELSE GetAccountAtBlock(d, cl, open, address,
                                 latestBlock.block.height, lookup)
    IN atLatest(LatestBlock(d, open))

\* Blockchain.GetTransactionResult without the lookup in the pending block
GetTransactionResult_NoPendingCheck(pb, d, open, tx) ==
    LET result(storedResult) ==
          IF storedResult.err = NotFound
          THEN [err |-> OK, status |-> "Unknown", error |-> 0, events |-> <<>>]
          ELSE IF storedResult.err # OK
          THEN [err |-> ErrStorage, status |-> "", error |-> 0, events |-> <<>>]
          ELSE [err |-> OK, status |-> "Sealed",
                error |-> storedResult.result.errorCode,
                events |-> storedResult.result.events]
    IN result(TransactionResultByID(d, open, tx))

\* Blockchain.GetTransactionResult; error is the code of the ExecutionError
\* the result carries, 0 when it carries none
GetTransactionResult(pb, d, open, tx) ==
    LET result(storedResult) ==
          IF storedResult.err = NotFound
          THEN [err |-> OK, status |-> "Unknown", error |-> 0, events |-> <<>>]
          ELSE IF storedResult.err # OK
          THEN [err |-> ErrStorage, status |-> "", error |-> 0, events |-> <<>>]
          ELSE [err |-> OK, status |-> "Sealed",
                error |-> storedResult.result.errorCode,
                events |-> storedResult.result.events]
    IN IF ContainsTransaction(pb, tx)
       THEN [err |-> OK, status |-> "Pending", error |-> 0, events |-> <<>>]
       ELSE result(TransactionResultByID(d, open, tx))

\* Blockchain.GetEventsByHeight
GetEventsByHeight(d, open, blockHeight, eventType) ==
    EventsByHeight(d, open, blockHeight, eventType)

\* Store.JumpToContext: close the database, checkpoint, then either tag the
\* current state as a new context or switch the files back to the tagged
\* state of an existing one, and reopen.  The result is [err, db, open, tags].
StoreJumpToContext(d, open, tg, ctx, ckOK) ==
    IF ~ckOK THEN [err |-> ErrCheckpoint, db |-> d, open |-> FALSE, tags |-> tg]
    ELSE IF ctx \notin DOMAIN tg
    THEN [err |-> OK, db |-> d, open |-> TRUE, tags |-> Put(tg, ctx, d)]
    ELSE [err |-> OK, db |-> tg[ctx], open |-> TRUE, tags |-> tg]

\* ------------------------------------------------------------------- state
VARIABLES
    db,            \* the Badger key space
    dbOpen,        \* the Badger handle is open
    changelog,     \* Store.ledgerChangeLog, in memory
    tags,          \* git tags: context name -> the file state it captured
    tagged,        \* context name -> what the store answered when it was tagged
    pendingBlock,  \* Blockchain.pendingBlock
    ret,           \* the last call and what it returned
    hist,          \* of the current pending block: accepted submissions, VM runs
    sealed,        \* of the last committed block: the same, with the block
    applied,       \* height -> the ledger delta a Badger transaction committed
    executed,      \* ExecuteNextTransaction succeeded since the last reset
    faults,        \* store failures injected so far
    jumps,         \* calls of JumpToContext so far
    commits,       \* calls of Store.CommitBlock made on the store directly
    lockFile,      \* the file .git/index.lock exists
    call,          \* the store call in progress and the statement it is at
    worktree,      \* git worktree operations of that call, with the lock file's state
    head,          \* git commits made since New returned
    mu,            \* Blockchain.mu: the writer holding it, the readers' count
    callers,       \* per goroutine: the facade call it is in and where
    runs,          \* two runs of the pipeline started from one committed state
    automine,      \* Backend.automine
    sends          \* per goroutine: the SendTransaction it is in and where

\* the state of the snapshot manager that only the statement-level
\* specification of the store moves
snapshotVars == <<lockFile, call, worktree, head>>
\* the facade mutex and the goroutines, which only the specification of the
\* facade's locking moves
lockVars == <<mu, callers>>
\* the server backend's flag and its handlers, which only the specification
\* of the server moves
serverVars == <<automine, sends>>

vars == <<db, dbOpen, changelog, tags, tagged, pendingBlock, ret, hist, sealed, applied,
          executed, faults, jumps, commits, lockFile, call, worktree, head,
          mu, callers, runs, automine, sends>>

\* the committed deltas, with those of one more call recorded
RECURSIVE Record(_, _)
Record(ap, done) ==
    IF done = <<>> THEN ap
    ELSE Record(Put(ap, Head(done).height, Head(done).delta), Tail(done))

\* lockGit, unlockGit: write and remove .git/index.lock (f: the file exists)
lockGit(f) == TRUE
unlockGit(f) == FALSE

\* newCommit's deferred statement run only on the return without an error
newCommitDeferred_OnlyOnSuccess(f, err) ==
    IF err = OK THEN lockGit(f) ELSE f

\* newCommit's deferred statement: lockGit, on every return
newCommitDeferred(f, err) ==
    lockGit(f)

\* no store call in progress; the store after Close was called
Idle == [op |-> "none", at |-> "idle", arg |-> 0, err |-> OK]
Closed == [op |-> "closed", at |-> "idle", arg |-> 0, err |-> OK]

\* a goroutine that is in no SendTransaction of the server backend
NotSending == [at |-> "idle", tx |-> 0, mined |-> FALSE, logged |-> OK]

\* no runs of the pipeline have been started
NoRuns == <<>>

\* a goroutine that is in no call of the facade
NotCalling == [op |-> "none", at |-> "idle"]

\* errors of the store that an injected failure produces
StoreFaults == {ErrStorage, ErrCheckpoint}
Faulted(injected, err) ==
    IF injected /\ err \in StoreFaults THEN faults + 1 ELSE faults

Ret(op, err, arg) == [op |-> op, err |-> err, arg |-> arg]
NoHist == [submitted |-> <<>>, runs |-> <<>>]

\* NewBlockchain on an empty store: configureNewLedger commits the genesis
\* block with the bootstrap delta and anchors the first pending block on it
Genesis ==
    StoreCommitBlock(EmptyDB, <<>>, TRUE, GenesisBlock, <<>>, {}, <<>>, <<>>,
                     <<>>, TRUE, TRUE)

Init ==
    /\ db = Genesis.db
    /\ dbOpen = TRUE
    /\ changelog = Genesis.changelog
    /\ tags = <<>>
    /\ tagged = <<>>
    /\ \E ts \in Timestamps : pendingBlock = newPendingBlock(GenesisBlock, ts)
    /\ ret = Ret("NewBlockchain", OK, 0)
    /\ hist = NoHist
    /\ sealed = [block |-> GenesisBlock, submitted |-> <<>>, runs |-> <<>>]
    /\ applied = Record(<<>>, Genesis.applied)
    /\ executed = FALSE
    /\ faults = 0
    /\ jumps = 0
    /\ commits = 0
    /\ lockFile = lockGit(FALSE)
    /\ call = Idle
    /\ worktree = <<>>
    /\ head = 0
    /\ mu = [writer |-> 0, readers |-> 0]
    /\ callers = [p \in Callers |-> NotCalling]
    /\ runs = NoRuns
    /\ automine = FALSE
    /\ sends = [p \in Callers |-> NotSending]

\* the transactions of the pending block still to execute
Remaining(pb) == IF Size(pb) > pb.index THEN Size(pb) - pb.index ELSE 0
\* which step of a commit fails: the Badger transaction, the checkpoint, none
CommitFailures == {"none", "txn", "ck"}

\* ----------------------------------------------------------------- actions
AddTransaction ==
    \E tx \in TxIDs, valid \in BOOLEAN :
      LET return(r) ==
         /\ pendingBlock' = r.pb
         /\ ret' = Ret("AddTransaction", r.err, tx)
         /\ hist' = IF r.err = OK
                    THEN [hist EXCEPT !.submitted = Append(@, tx)] ELSE hist
         /\ UNCHANGED <<serverVars, runs, lockVars, snapshotVars, db, dbOpen, changelog, tags, tagged, sealed, applied, executed,
                        faults, jumps, commits>>
      IN return(addTransaction(pendingBlock, db, dbOpen, tx, valid))

ExecuteNextTransaction ==
    \E fatal \in BOOLEAN :
      LET return(r) ==
         /\ pendingBlock' = r.pb
         /\ ret' = Ret("ExecuteNextTransaction", r.err, 0)
         /\ hist' = [hist EXCEPT !.runs = @ \o r.ran]
         /\ executed' = (executed \/ r.err = OK)
         /\ UNCHANGED <<serverVars, runs, lockVars, snapshotVars, db, dbOpen, changelog, tags, tagged, sealed, applied, faults,
                        jumps, commits>>
      IN return(executeNextTransaction(pendingBlock, db, changelog, dbOpen, fatal))

ExecuteBlock ==
    \E fatalAt \in 0..Remaining(pendingBlock) :
      LET return(r) ==
         /\ pendingBlock' = r.pb
         /\ ret' = [op |-> "ExecuteBlock", err |-> r.err, arg |-> 0,
                     results |-> r.results]
         /\ hist' = [hist EXCEPT !.runs = @ \o r.ran]
         /\ UNCHANGED <<serverVars, runs, lockVars, snapshotVars, db, dbOpen, changelog, tags, tagged, sealed, applied, executed,
                        faults, jumps, commits>>
      IN return(executeBlock(pendingBlock, db, changelog, dbOpen, fatalAt))

CommitBlock ==
    /\ pendingBlock.height <= MaxHeight
    /\ \E fail \in CommitFailures, ts \in Timestamps :
         LET return(r) ==
            /\ fail # "none" => faults < MaxFaults
            /\ faults' = Faulted(fail # "none", r.err)
            /\ pendingBlock' = r.pb
            /\ db' = r.db
            /\ changelog' = r.changelog
            /\ ret' = Ret("CommitBlock", r.err, 0)
            /\ hist' = IF r.err = OK THEN NoHist ELSE hist
            /\ sealed' = IF r.err = OK
                         THEN [block |-> r.block, submitted |-> hist.submitted,
                               runs |-> hist.runs]
                         ELSE sealed
            /\ applied' = Record(applied, r.applied)
            /\ UNCHANGED <<serverVars, runs, lockVars, snapshotVars, dbOpen, tags, tagged, executed, jumps, commits>>
         IN return(commitBlock(pendingBlock, db, changelog, dbOpen,
                               fail # "txn", fail # "ck", ts))

ExecuteAndCommitBlock ==
    /\ pendingBlock.height <= MaxHeight
    /\ \E fatalAt \in 0..Remaining(pendingBlock),
          fail \in CommitFailures, ts \in Timestamps :
         LET return(r) ==
            /\ fail # "none" => faults < MaxFaults
            /\ faults' = Faulted(fail # "none", r.err)
            /\ pendingBlock' = r.pb
            /\ db' = r.db
            /\ changelog' = r.changelog
            /\ ret' = Ret("ExecuteAndCommitBlock", r.err, 0)
            /\ hist' = IF r.err = OK THEN NoHist
                       ELSE [hist EXCEPT !.runs = @ \o r.ran]
            /\ sealed' = IF r.err = OK
                         THEN [block |-> r.block, submitted |-> hist.submitted,
                               runs |-> hist.runs \o r.ran]
                         ELSE sealed
            /\ applied' = Record(applied, r.applied)
            /\ UNCHANGED <<serverVars, runs, lockVars, snapshotVars, dbOpen, tags, tagged, executed, jumps, commits>>
         IN return(executeAndCommitBlock(pendingBlock, db, changelog, dbOpen,
                                         fatalAt, fail # "txn", fail # "ck", ts))

\* readOK: storage.LatestBlock reads the latest block without an error
ResetPendingBlock ==
    \E ts \in Timestamps, readOK \in BOOLEAN :
      LET return(r) ==
         /\ ~readOK => faults < MaxFaults
         /\ faults' = Faulted(~readOK, r.err)
         /\ pendingBlock' = r.pb
         /\ ret' = Ret("ResetPendingBlock", r.err, 0)
         /\ hist' = IF r.err = OK THEN NoHist ELSE hist
         /\ executed' = IF r.err = OK THEN FALSE ELSE executed
         /\ UNCHANGED <<serverVars, runs, lockVars, snapshotVars, db, dbOpen, changelog, tags, tagged,
                        sealed, applied, jumps, commits>>
      IN return(resetPendingBlock(pendingBlock, db, dbOpen /\ readOK, ts))

GetLatestBlock ==
    LET r == LatestBlock(db, dbOpen)
    IN /\ ret' = Ret("GetLatestBlock", IF r.err = OK THEN OK ELSE ErrStorage, 0)
       /\ UNCHANGED <<serverVars, runs, lockVars, snapshotVars, db, dbOpen, changelog, tags, tagged, pendingBlock, hist, sealed,
                      applied, executed, faults, jumps, commits>>

GetTransactionResultCall ==
    \E tx \in TxIDs :
      /\ ret' = Ret("GetTransactionResult",
                     GetTransactionResult(pendingBlock, db, dbOpen, tx).err, tx)
      /\ UNCHANGED <<serverVars, runs, lockVars, snapshotVars, db, dbOpen, changelog, tags, tagged, pendingBlock, hist, sealed,
                     applied, executed, faults, jumps, commits>>

GetEventsByHeightCall ==
    \E blockHeight \in 0..MaxHeight :
      /\ ret' = Ret("GetEventsByHeight",
                     GetEventsByHeight(db, dbOpen, blockHeight, "").err,
                     blockHeight)
      /\ UNCHANGED <<serverVars, runs, lockVars, snapshotVars, db, dbOpen, changelog, tags, tagged, pendingBlock, hist, sealed,
                     applied, executed, faults, jumps, commits>>

CreateAccountCall ==
    /\ pendingBlock.height + 1 <= MaxHeight
    /\ \E valid \in BOOLEAN, fatalAt \in 0..(Size(pendingBlock) + 1),
          fail \in {"none", "txn1", "ck1", "txn2", "ck2"},
          ts1 \in Timestamps, ts2 \in Timestamps :
         LET return(r) ==
            LET sub == IF r.added THEN Append(hist.submitted, r.tx)
                       ELSE hist.submitted
            IN
            /\ fail # "none" => faults < MaxFaults
            /\ faults' = Faulted(fail # "none", r.err)
            /\ pendingBlock' = r.pb
            /\ db' = r.db
            /\ changelog' = r.changelog
            /\ ret' = Ret("CreateAccount", r.err, r.address)
            /\ hist' = IF r.commits > 0 THEN NoHist
                       ELSE [submitted |-> sub, runs |-> hist.runs \o r.ran]
            /\ sealed' = IF r.commits = 2
                         THEN [block |-> r.blocks[2], submitted |-> <<>>, runs |-> <<>>]
                         ELSE IF r.commits = 1
                         THEN [block |-> r.blocks[1], submitted |-> sub,
                               runs |-> hist.runs \o r.ran]
                         ELSE sealed
            /\ applied' = Record(applied, r.applied)
            /\ UNCHANGED <<serverVars, runs, lockVars, snapshotVars, dbOpen, tags, tagged, executed, jumps, commits>>
         IN return(CreateAccount(pendingBlock, db, changelog, dbOpen, valid,
                                 fatalAt, fail, ts1, ts2))

\* what a script call returned: the value, the script and the height it ran at
ScriptRet(op, r, script, height) ==
    [op |-> op, err |-> r.err, arg |-> r.value, script |-> script,
     height |-> height]

ExecuteScriptAtBlockCall ==
    \E script \in Scripts, blockHeight \in 0..MaxHeight, fatal \in BOOLEAN :
      LET return(r) ==
         /\ pendingBlock' = r.pb
         /\ db' = r.db
         /\ changelog' = r.changelog
         /\ ret' = ScriptRet("ExecuteScriptAtBlock", r, script, blockHeight)
         /\ UNCHANGED <<serverVars, runs, lockVars, snapshotVars, dbOpen, tags, tagged, hist,
                        sealed, applied, executed, faults, jumps, commits>>
      IN return(ExecuteScriptAtBlock(pendingBlock, db, changelog, dbOpen,
                                     script, blockHeight, fatal))

ExecuteScriptCall ==
    \E script \in Scripts, fatal \in BOOLEAN :
      LET return(r) ==
         /\ pendingBlock' = r.pb
         /\ db' = r.db
         /\ changelog' = r.changelog
         /\ ret' = ScriptRet("ExecuteScript", r, script, r.height)
         /\ UNCHANGED <<serverVars, runs, lockVars, snapshotVars, dbOpen, tags, tagged, hist,
                        sealed, applied, executed, faults, jumps, commits>>
      IN return(ExecuteScript(pendingBlock, db, changelog, dbOpen, script,
                              fatal))

\* ------------------------------------------------------ the server backend
\* Backend.SendTransaction is two calls of the facade, each under the facade
\* mutex, with other handlers free to run in between.

\* Backend.EnableAutoMine, Backend.DisableAutoMine
EnableAutoMine ==
    /\ automine' = TRUE
    /\ UNCHANGED <<sends, runs, lockVars, snapshotVars, db, dbOpen, changelog,
                   tags, tagged, pendingBlock, ret, hist, sealed, applied,
                   executed, faults, jumps, commits>>

DisableAutoMine ==
    /\ automine' = FALSE
    /\ UNCHANGED <<sends, runs, lockVars, snapshotVars, db, dbOpen, changelog,
                   tags, tagged, pendingBlock, ret, hist, sealed, applied,
                   executed, faults, jumps, commits>>

\* what SendTransaction answered: the error of the response, whether it
\* called Backend.commitBlock, and the error that call logged
SendRet(err, tx, mined, logged) ==
    [op |-> "SendTransaction", err |-> err, arg |-> tx, mined |-> mined,
     logged |-> logged]

\* SendTransaction up to the return of b.blockchain.AddTransaction(tx): an
\* error is the response
SendTransactionAdd ==
    \E p \in Callers, tx \in TxIDs, valid \in BOOLEAN :
      LET return(r) ==
         /\ pendingBlock' = r.pb
         /\ hist' = IF r.err = OK
                    THEN [hist EXCEPT !.submitted = Append(@, tx)] ELSE hist
         /\ ret' = IF r.err = OK THEN ret ELSE SendRet(r.err, tx, FALSE, OK)
         /\ sends' = IF r.err = OK
                     THEN [sends EXCEPT ![p] =
                             [at |-> "added", tx |-> tx, mined |-> FALSE,
                              logged |-> OK]]
                     ELSE sends
         /\ UNCHANGED <<automine, runs, lockVars, snapshotVars, db, dbOpen,
                        changelog, tags, tagged, sealed, applied, executed,
                        faults, jumps, commits>>
      IN /\ sends[p] = NotSending
         /\ return(addTransaction(pendingBlock, db, dbOpen, tx, valid))

\* SendTransaction goes on: with automine, Backend.commitBlock, which calls
\* ExecuteAndCommitBlock and logs its error
SendTransactionCommit ==
    \E p \in Callers :
      /\ sends[p].at = "added"
      /\ IF automine
         THEN /\ pendingBlock.height <= MaxHeight
              /\ \E fatalAt \in 0..Remaining(pendingBlock),
                    fail \in CommitFailures, ts \in Timestamps :
                   LET return(r) ==
                      /\ fail # "none" => faults < MaxFaults
                      /\ faults' = Faulted(fail # "none", r.err)
                      /\ pendingBlock' = r.pb
                      /\ db' = r.db
                      /\ changelog' = r.changelog
                      /\ sends' = [sends EXCEPT ![p] =
                                     [at |-> "responding", tx |-> sends[p].tx,
                                      mined |-> TRUE, logged |-> r.err]]
                      /\ hist' = IF r.err = OK THEN NoHist
                                 ELSE [hist EXCEPT !.runs = @ \o r.ran]
                      /\ sealed' = IF r.err = OK
                                   THEN [block |-> r.block,
                                         submitted |-> hist.submitted,
                                         runs |-> hist.runs \o r.ran]
                                   ELSE sealed
                      /\ applied' = Record(applied, r.applied)
                   IN return(executeAndCommitBlock(
                               pendingBlock, db, changelog, dbOpen, fatalAt,
                               fail # "txn", fail # "ck", ts))
         ELSE /\ sends' = [sends EXCEPT ![p] =
                             [at |-> "responding", tx |-> sends[p].tx,
                              mined |-> FALSE, logged |-> OK]]
              /\ UNCHANGED <<pendingBlock, db, changelog, hist, sealed, applied,
                             faults>>
      /\ UNCHANGED <<automine, ret, runs, lockVars, snapshotVars, dbOpen, tags,
                     tagged, executed, jumps, commits>>

\* SendTransaction returns its response, which the client receives
SendTransactionReturn ==
    \E p \in Callers :
      /\ sends[p].at = "responding"
      /\ ret' = SendRet(OK, sends[p].tx, sends[p].mined, sends[p].logged)
      /\ sends' = [sends EXCEPT ![p] = NotSending]
      /\ UNCHANGED <<automine, runs, lockVars, snapshotVars, db, dbOpen,
                     changelog, tags, tagged, pendingBlock, hist, sealed,
                     applied, executed, faults, jumps, commits>>

\* ------------------------------------------------------- two runs compared
\* Two emulators are started on copies of the store as it is, at clock
\* readings that may differ, and are given the same calls with the same
\* transactions; no failure is injected in either.
RunIDs == {1, 2}
ClockOf(i, ts, skew) == IF i = 1 THEN ts ELSE ts + skew

\* NewBlockchain on the stored state: the pending block is anchored on the
\* latest block and stamped with the clock reading of its construction
StartRuns ==
    /\ runs = NoRuns
    /\ dbOpen
    /\ \E ts \in Timestamps, skew \in 0..MaxSkew :
         runs' = [i \in RunIDs |->
                    [pb |-> resetPendingBlock(pendingBlock, db, dbOpen,
                                              ClockOf(i, ts, skew)).pb,
                     db |-> db, changelog |-> changelog, out |-> <<>>]]
    /\ UNCHANGED <<serverVars, db, dbOpen, changelog, tags, tagged, pendingBlock, ret, hist,
                   sealed, applied, executed, faults, jumps, commits,
                   snapshotVars, lockVars>>

\* AddTransaction(tx) in both runs
RunsAddTransaction ==
    /\ runs # NoRuns
    /\ \E tx \in TxIDs :
         runs' = [i \in RunIDs |->
                    [runs[i] EXCEPT !.pb =
                       addTransaction(runs[i].pb, runs[i].db, TRUE, tx, TRUE).pb]]
    /\ UNCHANGED <<serverVars, db, dbOpen, changelog, tags, tagged, pendingBlock, ret, hist,
                   sealed, applied, executed, faults, jumps, commits,
                   snapshotVars, lockVars>>

\* a run after ExecuteAndCommitBlock returned r: next to its state, what the
\* call was given (the committed state, the pending block's timestamp) and
\* what it produced (the block id, the results, the committed delta)
RunAfter(run, r) ==
    IF r.err # OK THEN [run EXCEPT !.pb = r.pb]
    ELSE [pb |-> r.pb, db |-> r.db, changelog |-> r.changelog,
          out |-> [from |-> [db |-> run.db, changelog |-> run.changelog],
                   stamp |-> run.pb.timestamp,
                   blockID |-> BlockID(r.block), results |-> r.results,
                   delta |-> r.applied]]

\* ExecuteAndCommitBlock in both runs
RunsExecuteAndCommitBlock ==
    /\ runs # NoRuns
    /\ runs[1].pb.height <= MaxHeight
    /\ \E ts \in Timestamps, skew \in 0..MaxSkew :
         runs' = [i \in RunIDs |->
                    RunAfter(runs[i],
                             executeAndCommitBlock(
                               runs[i].pb, runs[i].db, runs[i].changelog, TRUE,
                               0, TRUE, TRUE, ClockOf(i, ts, skew)))]
    /\ UNCHANGED <<serverVars, db, dbOpen, changelog, tags, tagged, pendingBlock, ret, hist,
                   sealed, applied, executed, faults, jumps, commits,
                   snapshotVars, lockVars>>

\* what an account call returned, and how the lookup of the VM ended
AccountRet(op, r, address, lookup) ==
    [op |-> op, err |-> r.err, arg |-> address, lookup |-> lookup]

GetAccountCall ==
    \E address \in Addresses, lookup \in Lookups :
      /\ lookup # "ok" => faults < MaxFaults
      /\ faults' = IF lookup # "ok" THEN faults + 1 ELSE faults
      /\ ret' = AccountRet("GetAccount",
                            GetAccount(db, changelog, dbOpen, address, lookup),
                            address, lookup)
      /\ UNCHANGED <<serverVars, runs, lockVars, snapshotVars, db, dbOpen, changelog, tags,
                     tagged, pendingBlock, hist, sealed, applied, executed,
                     jumps, commits>>

GetAccountAtBlockCall ==
    \E address \in Addresses, blockHeight \in 0..MaxHeight, lookup \in Lookups :
      /\ lookup # "ok" => faults < MaxFaults
      /\ faults' = IF lookup # "ok" THEN faults + 1 ELSE faults
      /\ ret' = AccountRet("GetAccountAtBlock",
                            GetAccountAtBlock(db, changelog, dbOpen, address,
                                              blockHeight, lookup),
                            address, lookup)
      /\ UNCHANGED <<serverVars, runs, lockVars, snapshotVars, db, dbOpen, changelog, tags,
                     tagged, pendingBlock, hist, sealed, applied, executed,
                     jumps, commits>>

\* what an open store answers: the latest block, and every register at
\* every height
Observe(d, cl) ==
    [latest |-> LatestBlock(d, TRUE),
     reads |-> [k \in (0..MaxHeight) \X Registers |->
                   LedgerViewRead(d, cl, TRUE, k[1], k[2])]]

\* Store.JumpToContext, called on the store the facade holds
JumpToContext ==
    /\ jumps < MaxJumps
    /\ jumps' = jumps + 1
    /\ \E ctx \in Contexts, ckOK \in BOOLEAN :
      LET r == StoreJumpToContext(db, dbOpen, tags, ctx, ckOK)
      IN /\ ~ckOK => faults < MaxFaults
         /\ faults' = Faulted(~ckOK, r.err)
         /\ db' = r.db
         /\ dbOpen' = r.open
         /\ tags' = r.tags
         /\ tagged' = IF r.err = OK /\ ctx \notin DOMAIN tags
                      THEN Put(tagged, ctx, Observe(r.db, changelog))
                      ELSE tagged
         /\ ret' = Ret("JumpToContext", r.err, ctx)
         /\ UNCHANGED <<serverVars, runs, lockVars, snapshotVars, changelog, pendingBlock, hist, sealed, applied, executed,
                        commits>>

\* what a caller of the store hands to Store.CommitBlock for a block with the
\* one transaction tx, or with none when tx = 0: the transaction run on a
\* view in which every register has a value
StorePayload(tx) ==
    IF tx = 0
    THEN [txIDs |-> <<>>, results |-> <<>>, delta |-> <<>>, events |-> <<>>]
    ELSE LET payload(tp, evs) ==
               [txIDs |-> <<tx>>,
                results |-> [t \in {tx} |->
                               [errorCode |-> tp.errorCode, events |-> evs]],
                delta |-> tp.writes, events |-> evs]
             run(tp) == payload(tp, StampEvents(tx, 0, tp.eventTypes))
         IN run(VMRun(tx, [r \in Registers |-> <<0>>]))

\* Store.CommitBlock, called on the store directly
StoreCommitBlockCall ==
    /\ commits < MaxCommits
    /\ commits' = commits + 1
    /\ \E h \in 1..MaxHeight, tx \in 0..MaxTx, fail \in CommitFailures,
       ts \in Timestamps :
      LET return(r) ==
            /\ fail # "none" => faults < MaxFaults
            /\ faults' = Faulted(fail # "none", r.err)
            /\ db' = r.db
            /\ changelog' = r.changelog
            /\ applied' = Record(applied, r.applied)
            /\ ret' = Ret("StoreCommitBlock", r.err, h)
            /\ UNCHANGED <<serverVars, runs, lockVars, snapshotVars, dbOpen, tags, tagged, pendingBlock, hist, sealed,
                           executed, jumps>>
          commit(p) ==
            return(StoreCommitBlock(
                     db, changelog, dbOpen,
                     [height |-> h, parentID |-> <<>>, timestamp |-> ts,
                      txIDs |-> p.txIDs],
                     IF p.txIDs = <<>> THEN <<>> ELSE <<p.txIDs>>,
                     Range(p.txIDs), p.results, p.delta, p.events,
                     fail # "txn", fail # "ck"))
      IN commit(StorePayload(tx))

\* Store.StoreBlock, called on the store directly
StoreBlockCall ==
    /\ commits < MaxCommits
    /\ commits' = commits + 1
    /\ \E h \in 1..MaxHeight, ts \in Timestamps, txnOK \in BOOLEAN :
      LET return(r) ==
            /\ ~txnOK => faults < MaxFaults
            /\ faults' = Faulted(~txnOK, r.err)
            /\ db' = r.db
            /\ ret' = Ret("StoreBlock", r.err, h)
            /\ UNCHANGED <<serverVars, runs, lockVars, snapshotVars, dbOpen, changelog, tags, tagged, pendingBlock, hist,
                           sealed, applied, executed, jumps>>
      IN return(StoreBlock(db, dbOpen,
                           [height |-> h, parentID |-> <<>>, timestamp |-> ts,
                            txIDs |-> <<>>],
                           txnOK))

\* Store.InsertLedgerDelta, called on the store directly
InsertLedgerDeltaCall ==
    /\ commits < MaxCommits
    /\ commits' = commits + 1
    /\ \E h \in 1..MaxHeight, tx \in 1..MaxTx, txnOK \in BOOLEAN :
      LET return(r) ==
            /\ ~txnOK => faults < MaxFaults
            /\ faults' = Faulted(~txnOK, r.err)
            /\ db' = r.db
            /\ changelog' = r.changelog
            /\ applied' = IF r.err = OK
                           THEN Put(applied, h, StorePayload(tx).delta)
                           ELSE applied
            /\ ret' = Ret("InsertLedgerDelta", r.err, h)
            /\ UNCHANGED <<serverVars, runs, lockVars, snapshotVars, dbOpen, tags, tagged,
                           pendingBlock, hist, sealed, executed, jumps>>
      IN return(StoreInsertLedgerDelta(db, changelog, dbOpen, h,
                                       StorePayload(tx).delta, txnOK))

\* Store.LedgerViewByHeight, called on the store directly
LedgerViewByHeightCall ==
    \E h \in 0..MaxHeight :
      /\ ret' = Ret("LedgerViewByHeight",
                     LedgerViewRead(db, changelog, dbOpen, h, "a").err, h)
      /\ UNCHANGED <<serverVars, runs, lockVars, snapshotVars, db, dbOpen, changelog, tags, tagged, pendingBlock, hist,
                     sealed, applied, executed, faults, jumps, commits>>

\* ------------------------------------------ the store, statement by statement
\* One store call at a time, taken one statement at a time: the calls of
\* lockGit and unlockGit, the Badger calls and the git worktree operations.

\* a git worktree operation, with whether the lock file exists as it runs
Did(op) == Append(worktree, [op |-> op, locked |-> lockFile])

\* where a call goes on after newCommit returned err to it
afterNewCommit(c, err) ==
    IF c.op = "CommitBlock" THEN Idle
    ELSE IF c.op = "JumpToContext"
    THEN [c EXCEPT !.at = IF err = OK THEN "checkout" ELSE "return", !.err = err]
    ELSE IF err = OK THEN [c EXCEPT !.at = "unlock"] ELSE Closed

\* Store.CommitBlock up to its call of newCommit: the count check and the
\* Badger transaction
BeginCommitBlock ==
    /\ call = Idle
    /\ commits < MaxCommits
    /\ commits' = commits + 1
    /\ \E h \in 1..MaxHeight, tx \in 0..MaxTx, txnOK \in BOOLEAN,
          short \in BOOLEAN, ts \in Timestamps :
      LET return(r) ==
            /\ ~txnOK => faults < MaxFaults
            /\ faults' = Faulted(~txnOK, r.err)
            /\ db' = r.db
            /\ changelog' = r.changelog
            /\ applied' = Record(applied, r.applied)
            /\ worktree' = <<>>
            /\ IF r.err = OK
               THEN /\ call' = [op |-> "CommitBlock", at |-> "newCommit",
                                arg |-> h, err |-> OK]
                    /\ ret' = Ret("StoreCommitBlock", InProgress, h)
               ELSE /\ call' = Idle
                    /\ ret' = Ret("StoreCommitBlock", r.err, h)
            /\ UNCHANGED <<serverVars, runs, lockVars, dbOpen, tags, tagged, pendingBlock, hist, sealed,
                           executed, jumps, lockFile, head>>
          commit(p) ==
            return(StoreCommitBlock(
                     db, changelog, dbOpen,
                     [height |-> h, parentID |-> <<>>, timestamp |-> ts,
                      txIDs |-> p.txIDs],
                     IF p.txIDs = <<>> THEN <<>> ELSE <<p.txIDs>>,
                     Range(p.txIDs), IF short THEN <<>> ELSE p.results,
                     p.delta, p.events, txnOK, TRUE))
      IN commit(StorePayload(tx))

\* Store.JumpToContext: unlockGit, and the deferred lockGit registered
BeginJumpToContext ==
    /\ call = Idle
    /\ jumps < MaxJumps
    /\ jumps' = jumps + 1
    /\ \E ctx \in Contexts :
         /\ call' = [op |-> "JumpToContext", at |-> "close", arg |-> ctx,
                     err |-> OK]
         /\ ret' = Ret("JumpToContext", InProgress, ctx)
    /\ lockFile' = unlockGit(lockFile)
    /\ worktree' = <<>>
    /\ UNCHANGED <<serverVars, runs, lockVars, db, dbOpen, changelog, tags, tagged, pendingBlock, hist,
                   sealed, applied, executed, faults, commits, head>>

\* Store.JumpToContext: s.db.Close()
JumpClose ==
    /\ call.op = "JumpToContext" /\ call.at = "close"
    /\ dbOpen' = FALSE
    /\ call' = [call EXCEPT !.at = "newCommit"]
    /\ UNCHANGED <<serverVars, runs, lockVars, db, changelog, tags, tagged, pendingBlock, ret, hist, sealed,
                   applied, executed, faults, jumps, commits, lockFile,
                   worktree, head>>

\* Store.Close: s.db.Close()
BeginClose ==
    /\ call = Idle
    /\ dbOpen' = FALSE
    /\ call' = [op |-> "Close", at |-> "newCommit", arg |-> 0, err |-> OK]
    /\ ret' = Ret("Close", InProgress, 0)
    /\ worktree' = <<>>
    /\ UNCHANGED <<serverVars, runs, lockVars, db, changelog, tags, tagged, pendingBlock, hist, sealed,
                   applied, executed, faults, jumps, commits, lockFile, head>>

\* newCommit: unlockGit, and the deferred lockGit registered
NewCommitUnlock ==
    /\ call.at = "newCommit"
    /\ lockFile' = unlockGit(lockFile)
    /\ call' = [call EXCEPT !.at = "sync"]
    /\ UNCHANGED <<serverVars, runs, lockVars, db, dbOpen, changelog, tags, tagged, pendingBlock, ret, hist,
                   sealed, applied, executed, faults, jumps, commits, worktree,
                   head>>

\* newCommit: s.Sync()
NewCommitSync ==
    /\ call.at = "sync"
    /\ \E ok \in BOOLEAN :
         /\ ~ok => faults < MaxFaults
         /\ faults' = IF ok THEN faults ELSE faults + 1
         /\ call' = IF ok THEN [call EXCEPT !.at = "add"]
                    ELSE [call EXCEPT !.at = "deferred", !.err = ErrCheckpoint]
    /\ UNCHANGED <<serverVars, runs, lockVars, db, dbOpen, changelog, tags, tagged, pendingBlock, ret, hist,
                   sealed, applied, executed, jumps, commits, lockFile,
                   worktree, head>>

\* newCommit: w.Add of the database files
NewCommitAdd ==
    /\ call.at = "add"
    /\ worktree' = Did("add")
    /\ \E ok \in BOOLEAN :
         /\ ~ok => faults < MaxFaults
         /\ faults' = IF ok THEN faults ELSE faults + 1
         /\ call' = IF ok THEN [call EXCEPT !.at = "commit"]
                    ELSE [call EXCEPT !.at = "deferred", !.err = ErrCheckpoint]
    /\ UNCHANGED <<serverVars, runs, lockVars, db, dbOpen, changelog, tags, tagged, pendingBlock, ret, hist,
                   sealed, applied, executed, jumps, commits, lockFile, head>>

\* newCommit: w.Commit
NewCommitCommit ==
    /\ call.at = "commit"
    /\ worktree' = Did("commit")
    /\ \E ok \in BOOLEAN :
         /\ ~ok => faults < MaxFaults
         /\ faults' = IF ok THEN faults ELSE faults + 1
         /\ head' = IF ok THEN head + 1 ELSE head
         /\ call' = IF ok THEN [call EXCEPT !.at = "deferred"]
                    ELSE [call EXCEPT !.at = "deferred", !.err = ErrCheckpoint]
    /\ UNCHANGED <<serverVars, runs, lockVars, db, dbOpen, changelog, tags, tagged, pendingBlock, ret, hist,
                   sealed, applied, executed, jumps, commits, lockFile>>

\* newCommit returns: its deferred statement runs, and the caller goes on;
\* Store.CommitBlock and a failed Store.Close return what newCommit returned
NewCommitReturn ==
    /\ call.at = "deferred"
    /\ lockFile' = newCommitDeferred(lockFile, call.err)
    /\ call' = afterNewCommit(call, call.err)
    /\ ret' = IF call.op = "CommitBlock"
              THEN Ret("StoreCommitBlock", call.err, call.arg)
              ELSE IF call.op = "Close" /\ call.err # OK
              THEN Ret("Close", call.err, 0)
              ELSE ret
    /\ UNCHANGED <<serverVars, runs, lockVars, db, dbOpen, changelog, tags, tagged, pendingBlock, hist,
                   sealed, applied, executed, faults, jumps, commits, worktree,
                   head>>

\* Store.JumpToContext: checkout of the context's branch, which fails when
\* the branch does not exist
JumpCheckout ==
    /\ call.op = "JumpToContext" /\ call.at = "checkout"
    /\ worktree' = Did("checkout")
    /\ call' = [call EXCEPT !.at = IF call.arg \in DOMAIN tags
                                   THEN "newBranch" ELSE "createBranch"]
    /\ UNCHANGED <<serverVars, runs, lockVars, db, dbOpen, changelog, tags, tagged, pendingBlock, ret, hist,
                   sealed, applied, executed, faults, jumps, commits, lockFile,
                   head>>

\* Store.JumpToContext, new context: the branch is created, and the tag set
\* on the commit newCommit has just made
JumpCreateBranch ==
    /\ call.op = "JumpToContext" /\ call.at = "createBranch"
    /\ worktree' = Did("branch")
    /\ tags' = StoreJumpToContext(db, dbOpen, tags, call.arg, TRUE).tags
    /\ tagged' = Put(tagged, call.arg, Observe(db, changelog))
    /\ call' = [call EXCEPT !.at = "open"]
    /\ UNCHANGED <<serverVars, runs, lockVars, db, dbOpen, changelog, pendingBlock, ret, hist, sealed,
                   applied, executed, faults, jumps, commits, lockFile, head>>

\* Store.JumpToContext, known context: a branch with a fresh name
JumpNewBranch ==
    /\ call.op = "JumpToContext" /\ call.at = "newBranch"
    /\ worktree' = Did("branch")
    /\ call' = [call EXCEPT !.at = "reset"]
    /\ UNCHANGED <<serverVars, runs, lockVars, db, dbOpen, changelog, tags, tagged, pendingBlock, ret, hist,
                   sealed, applied, executed, faults, jumps, commits, lockFile,
                   head>>

\* Store.JumpToContext, known context: hard reset of the files to the tag
JumpReset ==
    /\ call.op = "JumpToContext" /\ call.at = "reset"
    /\ worktree' = Did("reset")
    /\ db' = StoreJumpToContext(db, dbOpen, tags, call.arg, TRUE).db
    /\ call' = [call EXCEPT !.at = "open"]
    /\ UNCHANGED <<serverVars, runs, lockVars, dbOpen, changelog, tags, tagged, pendingBlock, ret, hist,
                   sealed, applied, executed, faults, jumps, commits, lockFile,
                   head>>

\* Store.JumpToContext: badger.Open
JumpOpen ==
    /\ call.op = "JumpToContext" /\ call.at = "open"
    /\ dbOpen' = TRUE
    /\ call' = [call EXCEPT !.at = "return"]
    /\ UNCHANGED <<serverVars, runs, lockVars, db, changelog, tags, tagged, pendingBlock, ret, hist, sealed,
                   applied, executed, faults, jumps, commits, lockFile,
                   worktree, head>>

\* Store.JumpToContext returns: its deferred lockGit runs
JumpReturn ==
    /\ call.op = "JumpToContext" /\ call.at = "return"
    /\ lockFile' = lockGit(lockFile)
    /\ ret' = Ret("JumpToContext", call.err, call.arg)
    /\ call' = Idle
    /\ UNCHANGED <<serverVars, runs, lockVars, db, dbOpen, changelog, tags, tagged, pendingBlock, hist,
                   sealed, applied, executed, faults, jumps, commits, worktree,
                   head>>

\* Store.Close after its checkpoint: unlockGit, and the return
CloseUnlock ==
    /\ call.op = "Close" /\ call.at = "unlock"
    /\ lockFile' = unlockGit(lockFile)
    /\ ret' = Ret("Close", OK, 0)
    /\ call' = Closed
    /\ UNCHANGED <<serverVars, runs, lockVars, db, dbOpen, changelog, tags, tagged, pendingBlock, hist,
                   sealed, applied, executed, faults, jumps, commits, worktree,
                   head>>

\* ------------------------------------------------ the facade's locking
\* The exported operations of the facade and the lock each takes on b.mu
\* before its body: Lock, RLock, or none.
Mutating ==
    {"AddTransaction", "ExecuteBlock", "ExecuteNextTransaction", "CommitBlock",
     "ExecuteAndCommitBlock", "ResetPendingBlock", "CreateAccount"}
Queries ==
    {"ServiceKey", "PendingBlockID", "PendingBlockView", "PendingBlockTimestamp",
     "GetLatestBlock", "GetBlockByID", "GetBlockByHeight", "GetCollection",
     "GetTransaction", "GetTransactionResult", "GetAccount", "GetAccountAtBlock",
     "GetEventsByHeight", "ExecuteScript", "ExecuteScriptAtBlock"}
FacadeOps == Mutating \cup Queries

\* the lock taken, with CommitBlock taking the shared one
LockMode_CommitBlockShared(op) ==
    IF op \in Mutating \ {"CommitBlock"} THEN "exclusive"
    ELSE IF op \in {"CommitBlock", "GetCollection", "GetTransaction",
                    "GetTransactionResult", "GetAccount", "GetAccountAtBlock",
                    "ExecuteScript", "ExecuteScriptAtBlock"}
    THEN "shared"
    ELSE "none"

\* the lock taken: b.mu.Lock() in the mutating operations, b.mu.RLock() in
\* the queries that have it, nothing in the others
LockMode(op) ==
    IF op \in Mutating THEN "exclusive"
    ELSE IF op \in {"GetCollection", "GetTransaction", "GetTransactionResult",
                    "GetAccount", "GetAccountAtBlock", "ExecuteScript",
                    "ExecuteScriptAtBlock"}
    THEN "shared"
    ELSE "none"

\* the fields of the facade an operation's body reads and writes
Reads(op) ==
    IF op \in Mutating \cup {"PendingBlockID", "PendingBlockView",
                             "PendingBlockTimestamp", "GetTransaction",
                             "GetTransactionResult"}
    THEN {"pendingBlock"}
    ELSE IF op = "ServiceKey" THEN {"serviceKey"}
    ELSE {}
Writes(op) ==
    IF op = "CreateAccount" THEN {"pendingBlock", "serviceKey"}
    ELSE IF op \in Mutating THEN {"pendingBlock"}
    ELSE IF op = "ServiceKey" THEN {"serviceKey"}
    ELSE {}

\* a goroutine calls an operation and reaches its first statement
Call ==
    \E p \in Callers, op \in FacadeOps :
      /\ callers[p] = NotCalling
      /\ callers' = [callers EXCEPT ![p] =
            [op |-> op,
             at |-> IF LockMode(op) = "exclusive" THEN "Lock"
                    ELSE IF LockMode(op) = "shared" THEN "RLock"
                    ELSE "body"]]
      /\ UNCHANGED <<serverVars, runs, db, dbOpen, changelog, tags, tagged, pendingBlock, ret, hist,
                     sealed, applied, executed, faults, jumps, commits,
                     snapshotVars, mu>>

\* b.mu.Lock() returns: no writer and no reader holds the mutex
AcquireLock ==
    \E p \in Callers :
      /\ callers[p].at = "Lock"
      /\ mu.writer = 0
      /\ mu.readers = 0
      /\ mu' = [mu EXCEPT !.writer = p]
      /\ callers' = [callers EXCEPT ![p].at = "body"]
      /\ UNCHANGED <<serverVars, runs, db, dbOpen, changelog, tags, tagged, pendingBlock, ret, hist,
                     sealed, applied, executed, faults, jumps, commits,
                     snapshotVars>>

\* b.mu.RLock() returns: no writer holds the mutex and none is waiting for it
AcquireRLock ==
    \E p \in Callers :
      /\ callers[p].at \in {"RLock", "RLock2"}
      /\ mu.writer = 0
      /\ \A q \in Callers : callers[q].at # "Lock"
      /\ mu' = [mu EXCEPT !.readers = @ + 1]
      /\ callers' = [callers EXCEPT ![p].at =
                        IF callers[p].at = "RLock" THEN "body" ELSE "body2"]
      /\ UNCHANGED <<serverVars, runs, db, dbOpen, changelog, tags, tagged, pendingBlock, ret, hist,
                     sealed, applied, executed, faults, jumps, commits,
                     snapshotVars>>

\* ExecuteScript, holding the shared lock, calls ExecuteScriptAtBlock, which
\* takes it again
CallNested ==
    \E p \in Callers :
      /\ callers[p] = [op |-> "ExecuteScript", at |-> "body"]
      /\ callers' = [callers EXCEPT ![p].at = "RLock2"]
      /\ UNCHANGED <<serverVars, runs, db, dbOpen, changelog, tags, tagged, pendingBlock, ret, hist,
                     sealed, applied, executed, faults, jumps, commits,
                     snapshotVars, mu>>

\* ExecuteScriptAtBlock returns to ExecuteScript: its deferred RUnlock
ReturnNested ==
    \E p \in Callers :
      /\ callers[p].at = "body2"
      /\ mu' = [mu EXCEPT !.readers = @ - 1]
      /\ callers' = [callers EXCEPT ![p].at = "unwind"]
      /\ UNCHANGED <<serverVars, runs, db, dbOpen, changelog, tags, tagged, pendingBlock, ret, hist,
                     sealed, applied, executed, faults, jumps, commits,
                     snapshotVars>>

\* the operation returns: its deferred Unlock or RUnlock, if it took a lock
Return ==
    \E p \in Callers :
      /\ \/ callers[p].at = "body" /\ callers[p].op # "ExecuteScript"
         \/ callers[p].at = "unwind"
      /\ mu' = IF LockMode(callers[p].op) = "exclusive"
               THEN [mu EXCEPT !.writer = 0]
               ELSE IF LockMode(callers[p].op) = "shared"
               THEN [mu EXCEPT !.readers = @ - 1]
               ELSE mu
      /\ callers' = [callers EXCEPT ![p] = NotCalling]
      /\ UNCHANGED <<serverVars, runs, db, dbOpen, changelog, tags, tagged, pendingBlock, ret, hist,
                     sealed, applied, executed, faults, jumps, commits,
                     snapshotVars>>

\* the calls of the facade
Next ==
    \/ AddTransaction
    \/ ExecuteNextTransaction
    \/ ExecuteBlock
    \/ CommitBlock
    \/ ExecuteAndCommitBlock
    \/ ResetPendingBlock
    \/ CreateAccountCall
    \/ GetLatestBlock
    \/ GetTransactionResultCall
    \/ GetEventsByHeightCall

Spec == Init /\ [][Next]_vars

\* the facade with the calls that only read: scripts and account lookups
NextQueries ==
    \/ Next
    \/ ExecuteScriptCall
    \/ ExecuteScriptAtBlockCall
    \/ GetAccountCall
    \/ GetAccountAtBlockCall

SpecQueries == Init /\ [][NextQueries]_vars

\* the facade builds a committed state, then two runs start from it
NextRuns ==
    \/ runs = NoRuns /\ AddTransaction
    \/ runs = NoRuns /\ ExecuteAndCommitBlock
    \/ StartRuns
    \/ RunsAddTransaction
    \/ RunsExecuteAndCommitBlock

SpecRuns == Init /\ [][NextRuns]_vars

\* the handlers of the server backend
NextServer ==
    \/ EnableAutoMine
    \/ DisableAutoMine
    \/ SendTransactionAdd
    \/ SendTransactionCommit
    \/ SendTransactionReturn

SpecServer == Init /\ [][NextServer]_vars

\* the facade together with snapshot jumps on its store
NextStore == Next \/ JumpToContext

SpecStore == Init /\ [][NextStore]_vars

\* the store on its own: block commits, snapshot jumps and reads
NextBackend ==
    \/ StoreBlockCall
    \/ StoreCommitBlockCall
    \/ JumpToContext
    \/ LedgerViewByHeightCall
    \/ InsertLedgerDeltaCall

SpecBackend == Init /\ [][NextBackend]_vars

\* the store's calls that take checkpoints, statement by statement
NextSnapshot ==
    \/ BeginCommitBlock
    \/ BeginJumpToContext
    \/ BeginClose
    \/ NewCommitUnlock
    \/ NewCommitSync
    \/ NewCommitAdd
    \/ NewCommitCommit
    \/ NewCommitReturn
    \/ JumpClose
    \/ JumpCheckout
    \/ JumpCreateBranch
    \/ JumpNewBranch
    \/ JumpReset
    \/ JumpOpen
    \/ JumpReturn
    \/ CloseUnlock

SpecSnapshot == Init /\ [][NextSnapshot]_vars

\* goroutines calling the facade concurrently: what they do with b.mu
NextLocking ==
    \/ Call
    \/ AcquireLock
    \/ AcquireRLock
    \/ CallNested
    \/ ReturnNested
    \/ Return

SpecLocking == Init /\ [][NextLocking]_vars

\* ------------------------------------------------------------- properties
\* the transactions of the committed blocks
InBlocks(tx) == {h \in DOMAIN db.blocks : IsIn(tx, db.blocks[h].txIDs)}
Occurrences(tx, txIDs) == Cardinality({i \in DOMAIN txIDs : txIDs[i] = tx})

\* C1: after AddTransaction calls that succeeded and a successful
\* ExecuteAndCommitBlock, the committed block holds exactly the submitted
\* transactions in submission order, each of them stored with its result, and
\* the k-th submitted one was the k-th the VM ran, with transaction index k-1.
C1_CommittedInSubmissionOrder ==
    (ret.op = "ExecuteAndCommitBlock" /\ ret.err = OK) =>
        /\ LatestBlock(db, dbOpen).block = sealed.block
        /\ sealed.block.txIDs = sealed.submitted
        /\ \A tx \in Range(sealed.submitted) :
              /\ TransactionByID(db, dbOpen, tx) = OK
              /\ TransactionResultByID(db, dbOpen, tx).err = OK
        /\ sealed.submitted # <<>> => sealed.submitted \in db.collections
        /\ sealed.runs = [k \in 1..Len(sealed.submitted) |->
                             [tx |-> sealed.submitted[k], txIndex |-> k - 1]]

C1_Witness ==
    /\ ret.op = "ExecuteAndCommitBlock"
    /\ ret.err = OK
    /\ Len(sealed.submitted) = 2
    /\ sealed.submitted[1] > sealed.submitted[2]

\* the last write to register r in the deltas committed at heights <= h;
\* nil when there is none or when it is a deletion
LastWrite(r, h) ==
    LET hs == {x \in DOMAIN applied : x <= h /\ r \in DOMAIN applied[x]}
    IN IF hs = {} THEN Nil
       ELSE applied[CHOOSE x \in hs : \A y \in hs : y <= x][r]

\* C2: for every committed height h and register r, the ledger view at h reads
\* the value of the last write to r committed at a height <= h, and nothing
\* when there is no such write or it is a deletion.
C2_ViewReadsLastWrite ==
    \A h \in 0..db.latest : \A r \in Registers :
        LET read == LedgerViewRead(db, changelog, dbOpen, h, r)
        IN read.err = OK /\ read.value = LastWrite(r, h)

C4_PendingAnchoredOnLatest ==
    /\ pendingBlock.height = db.latest + 1
    /\ pendingBlock.parentID = BlockID(db.blocks[db.latest])

\* C5: after any sequence of facade calls the stored block heights are exactly
\* 0..H, H the latest height: genesis at 0, no gaps, nothing above H.
C5_HeightsContiguous ==
    /\ db.latest >= 0
    /\ DOMAIN db.blocks = 0..db.latest
    /\ \A h \in 0..db.latest : BlockByHeight(db, dbOpen, h).block.height = h

C5_Witness ==
    /\ db.latest = 2
    /\ ret.op = "CreateAccount"
    /\ ret.err = OK

\* C6: when CommitBlock returns successfully with block b, the latest height
\* is b's height and the store returns b as the latest block; no later call
\* of the facade makes the latest height smaller, so a query afterwards never
\* sees an older latest block.
C6_LatestIsCommittedBlock ==
    [][/\ (ret'.op = "CommitBlock" /\ ret'.err = OK) =>
            /\ db'.latest = sealed'.block.height
            /\ sealed'.block.height = pendingBlock.height
            /\ LatestBlock(db', dbOpen') = [err |-> OK, block |-> sealed'.block]
            /\ BlockByID(db', dbOpen', BlockID(sealed'.block)).block = sealed'.block
       /\ db'.latest >= db.latest
       /\ ret'.op = "GetLatestBlock" =>
            /\ ret'.err = OK
            /\ LatestBlock(db', dbOpen').block.height >= sealed.block.height]_vars

C6_Witness ==
    /\ ret.op = "CommitBlock"
    /\ ret.err = OK
    /\ db.latest = 2
    /\ sealed.submitted # <<>>

\* C7 as stated: submitting a transaction that is in a committed block returns
\* DuplicateTransaction whatever the state of the pending block, and leaves
\* the pending block as it was.
C7_CommittedIsDuplicate ==
    [][(ret'.op = "AddTransaction" /\ InBlocks(ret'.arg) # {}) =>
          /\ ret'.err = ErrDuplicate
          /\ pendingBlock' = pendingBlock]_vars

\* C7, amended: submitting a transaction that is in a committed block leaves
\* the pending block as it was and returns PendingBlockMidExecution when the
\* pending block has executed a transaction, DuplicateTransaction when it
\* has not (a storage error when the lookup in storage fails).
C7_CommittedIsRejected ==
    [][(ret'.op = "AddTransaction" /\ InBlocks(ret'.arg) # {}) =>
          /\ pendingBlock' = pendingBlock
          /\ ret'.err = IF pendingBlock.index > 0 THEN ErrMidExecution
                        ELSE IF dbOpen THEN ErrDuplicate
                        ELSE ErrStorage]_vars

C7_Witness ==
    /\ ret.op = "AddTransaction"
    /\ InBlocks(ret.arg) # {}
    /\ ret.err = ErrMidExecution
    /\ ~IsIn(ret.arg, pendingBlock.txIDs)

\* C8: submitting a transaction that is already in the pending block, nothing
\* of which has been executed, returns DuplicateTransaction, and the
\* transaction stays in the pending block exactly once, where it was.
C8_PendingIsDuplicate ==
    [][(/\ ret'.op = "AddTransaction"
        /\ IsIn(ret'.arg, pendingBlock.txIDs)
        /\ pendingBlock.index = 0) =>
          /\ ret'.err = ErrDuplicate
          /\ pendingBlock'.txIDs = pendingBlock.txIDs
          /\ Occurrences(ret'.arg, pendingBlock'.txIDs) = 1]_vars

C8_Witness ==
    /\ ret.op = "AddTransaction"
    /\ ret.err = ErrDuplicate
    /\ InBlocks(ret.arg) = {}
    /\ Len(pendingBlock.txIDs) = 2
    /\ pendingBlock.txIDs[1] = ret.arg
    /\ pendingBlock.index = 0

\* C9 as stated: every AddTransaction made after a successful
\* ExecuteNextTransaction and before the next ResetPendingBlock returns
\* PendingBlockMidExecution.
C9_MidExecutionUntilReset ==
    (ret.op = "AddTransaction" /\ executed) => ret.err = ErrMidExecution

\* C9, amended: every AddTransaction made after a transaction of the pending
\* block was executed and before that pending block is replaced, by
\* ResetPendingBlock or by a successful commit, returns
\* PendingBlockMidExecution and changes nothing.
C9_MidExecutionUntilReplaced ==
    [][(ret'.op = "AddTransaction" /\ hist.runs # <<>>) =>
          /\ ret'.err = ErrMidExecution
          /\ pendingBlock' = pendingBlock]_vars

C9_Witness ==
    /\ ret.op = "AddTransaction"
    /\ ret.err = ErrMidExecution
    /\ executed
    /\ Len(hist.runs) = 1
    /\ Len(pendingBlock.txIDs) = 2
    /\ faults = 1

\* C10: once the pending block has executed a transaction, its transaction
\* list stays the same until the block is replaced by a commit or a reset.
C10_ExecutedListFrozen ==
    [][(pendingBlock.index > 0 /\ pendingBlock'.index > 0) =>
          pendingBlock'.txIDs = pendingBlock.txIDs]_vars

C10_Witness ==
    /\ pendingBlock.index > 0
    /\ pendingBlock.index < Len(pendingBlock.txIDs)
    /\ ret.op = "CreateAccount"
    /\ ret.err = ErrMidExecution

\* C11: CommitBlock on a pending block that has executed some but not all of
\* its transactions returns PendingBlockMidExecution, and on a non-empty
\* pending block that has executed none PendingBlockCommitBeforeExecution; in
\* both cases storage, the latest height and the pending block are unchanged.
C11_CommitRejectedUnlessExecuted ==
    [][ret'.op = "CommitBlock" =>
          /\ (pendingBlock.index > 0 /\ pendingBlock.index < Size(pendingBlock)) =>
                /\ ret'.err = ErrMidExecution
                /\ db' = db /\ changelog' = changelog
                /\ pendingBlock' = pendingBlock
          /\ (pendingBlock.index = 0 /\ Size(pendingBlock) > 0) =>
                /\ ret'.err = ErrCommitBeforeExecution
                /\ db' = db /\ changelog' = changelog
                /\ pendingBlock' = pendingBlock]_vars

C11_Witness ==
    /\ ret.op = "CommitBlock"
    /\ ret.err = ErrMidExecution
    /\ pendingBlock.index = 1
    /\ Size(pendingBlock) = 2

\* C12: ExecuteNextTransaction on a pending block all of whose transactions
\* have been executed returns PendingBlockTransactionsExhausted, runs the VM
\* zero times and leaves the pending block unchanged.
C12_ExhaustedRunsNothing ==
    [][(ret'.op = "ExecuteNextTransaction"
        /\ pendingBlock.index >= Size(pendingBlock)) =>
          /\ ret'.err = ErrExhausted
          /\ hist'.runs = hist.runs
          /\ pendingBlock' = pendingBlock]_vars

C12_Witness ==
    /\ ret.op = "ExecuteNextTransaction"
    /\ ret.err = ErrExhausted
    /\ pendingBlock.index = 2
    /\ Len(hist.runs) = 2

\* C13: CommitBlock and ExecuteAndCommitBlock on a pending block with no
\* transactions, on which execution never started, succeed (the store not
\* failing): they commit a block at height latest+1 whose parent is the
\* previous latest block, without collections, transactions or events, and
\* latest becomes that height.
C13_EmptyCommitExtendsChain ==
    [][(/\ ret'.op \in {"CommitBlock", "ExecuteAndCommitBlock"}
        /\ Empty(pendingBlock) /\ pendingBlock.index = 0
        /\ faults' = faults) =>
          /\ ret'.err = OK
          /\ sealed'.block.height = db.latest + 1
          /\ sealed'.block.parentID = BlockID(db.blocks[db.latest])
          /\ sealed'.block.txIDs = <<>>
          /\ db'.latest = db.latest + 1
          /\ db'.blocks[db'.latest] = sealed'.block
          /\ db'.collections = db.collections
          /\ db'.txs = db.txs
          /\ db'.events = db.events]_vars

\* C15: GetTransactionResult(id) returns status Pending exactly when id is in
\* the pending block, executed there or not; Unknown when id is neither
\* pending nor committed; Sealed when id is committed and not pending, with
\* an execution error iff the stored error code is not zero, and with the
\* stored events.
C15_ResultStatus ==
    ret.op = "GetTransactionResult" =>
        LET got == GetTransactionResult(pendingBlock, db, dbOpen, ret.arg)
            pending == Occurrences(ret.arg, pendingBlock.txIDs) > 0
            committed == InBlocks(ret.arg) # {}
        IN /\ got.err = OK
           /\ got.status = "Pending" <=> pending
           /\ (~pending /\ ~committed) => got.status = "Unknown"
           /\ (~pending /\ committed) =>
                 /\ got.status = "Sealed"
                 /\ got.error # 0 <=> db.results[ret.arg].errorCode # 0
                 /\ got.events = db.results[ret.arg].events

C15_Witness ==
    /\ ret.op = "GetTransactionResult"
    /\ InBlocks(ret.arg) # {}
    /\ ~IsIn(ret.arg, pendingBlock.txIDs)
    /\ GetTransactionResult(pendingBlock, db, dbOpen, ret.arg).error # 0
    /\ pendingBlock.index = 1

\* the events the results of the block at height h carry, as event keys
ResultEvents(h) ==
    {[height |-> h, txIndex |-> e.txIndex, eventIndex |-> e.eventIndex,
      type |-> e.type] :
        e \in UNION {Range(db.results[tx].events) : tx \in Range(db.blocks[h].txIDs)}}
ResultEventCount(h) ==
    LET txIDs == db.blocks[h].txIDs
        upTo[k \in 0..Len(txIDs)] ==
            IF k = 0 THEN 0 ELSE upTo[k - 1] + Len(db.results[txIDs[k]].events)
    IN upTo[Len(txIDs)]

\* C16: the events EventsByHeight returns for a committed block come in the
\* order of (transaction index, event index); a type filter removes exactly
\* the events of other types and keeps the order; with the empty filter every
\* event inserted for the block is returned.
C16_EventsInKeyOrder ==
    ret.op = "GetEventsByHeight" =>
        LET h == ret.arg
            all == GetEventsByHeight(db, dbOpen, h, "").events
        IN h \in DOMAIN db.blocks =>
            /\ \A i, j \in DOMAIN all :
                  i < j <=> \/ all[i].txIndex < all[j].txIndex
                            \/ /\ all[i].txIndex = all[j].txIndex
                               /\ all[i].eventIndex < all[j].eventIndex
            /\ \A t \in Range(EventTypes) :
                  GetEventsByHeight(db, dbOpen, h, t).events =
                      SelectSeq(all, LAMBDA e : e.type = t)
            /\ Range(all) = ResultEvents(h)
            /\ Len(all) = ResultEventCount(h)

C16_Witness ==
    /\ ret.op = "GetEventsByHeight"
    /\ ret.arg \in DOMAIN db.blocks
    /\ Len(GetEventsByHeight(db, dbOpen, ret.arg, "").events) >= 3
    /\ Len(GetEventsByHeight(db, dbOpen, ret.arg, "AccountCreated").events) = 1

\* C14: a commit of a block at a height that already holds a block is
\* rejected with an error, and what the first commit stored (the block, the
\* block-id index, transactions, results, register values and events) is
\* unchanged.
C14_SecondCommitRejected ==
    [][(/\ ret'.op = "StoreCommitBlock"
        /\ dbOpen
        /\ ret'.arg \in DOMAIN db.blocks) =>
          /\ ret'.err # OK
          /\ db' = db]_vars

\* C17: after JumpToContext to a tagged snapshot, the latest block and the
\* value the ledger view at every height reads for every register are what
\* they were when the tag was created.
C17_JumpRestoresTaggedState ==
    (ret.op = "JumpToContext" /\ ret.err = OK /\ ret.arg \in DOMAIN tagged) =>
        /\ LatestBlock(db, dbOpen) = tagged[ret.arg].latest
        /\ \A h \in 0..MaxHeight : \A r \in Registers :
              LedgerViewRead(db, changelog, dbOpen, h, r) =
                  tagged[ret.arg].reads[<<h, r>>]

\* C18: after every JumpToContext that returns successfully the backend is
\* open and the in-memory changelog is the one persisted in it: the same
\* registers, each with the same list of heights.
C18_ChangelogRebuiltAfterJump ==
    (ret.op = "JumpToContext" /\ ret.err = OK) =>
        /\ dbOpen
        /\ DOMAIN changelog = DOMAIN db.ledgerClog
        /\ \A r \in DOMAIN changelog : changelog[r] = db.ledgerClog[r]

\* C19: when the checkpoint fails inside CommitBlock or JumpToContext, the
\* caller gets an error and the backend stays open at its previous state.
C19_CheckpointFailureKeepsState ==
    [][ret'.err = ErrCheckpoint =>
          /\ dbOpen' = dbOpen
          /\ db' = db
          /\ changelog' = changelog]_vars

\* C20: the writes of one block commit are all-or-nothing: when
\* Store.CommitBlock returns an error none of them is visible afterwards, and
\* when it returns success the block, the id index, the latest pointer, the
\* transactions, the results and the register values all are.
C20_CommitAllOrNothing ==
    [][ret'.op = "StoreCommitBlock" =>
          /\ ret'.err # OK => (db' = db /\ changelog' = changelog)
          /\ ret'.err = OK =>
               LET h == ret'.arg
                   stored == BlockByHeight(db', dbOpen', h)
               IN /\ stored.err = OK
                  /\ BlockByID(db', dbOpen', BlockID(stored.block)) = stored
                  /\ db'.latest >= h
                  /\ \A tx \in Range(stored.block.txIDs) :
                        /\ TransactionByID(db', dbOpen', tx) = OK
                        /\ TransactionResultByID(db', dbOpen', tx).err = OK
                  /\ \A r \in DOMAIN applied'[h] :
                        LedgerViewRead(db', changelog', dbOpen', h, r).value =
                            applied'[h][r]]_vars

\* C22: a call of StoreBlock or Store.CommitBlock never lowers the latest
\* pointer, and leaves it as it is when the block's height is below it.
C22_LatestNeverDecreases ==
    [][ret'.op \in {"StoreBlock", "StoreCommitBlock"} =>
          /\ db'.latest >= db.latest
          /\ ret'.arg < db.latest => db'.latest = db.latest]_vars

C22_Witness ==
    /\ ret.op = "StoreBlock"
    /\ ret.err = OK
    /\ ret.arg < db.latest
    /\ ret.arg \in DOMAIN db.blocks

\* C23: a step never removes or changes an entry of a register's changelog,
\* and every height it adds is above all the heights recorded before it.
C23_ChangelogAppendOnly ==
    [][\A r \in DOMAIN changelog :
          /\ r \in DOMAIN changelog'
          /\ Len(changelog'[r]) >= Len(changelog[r])
          /\ \A i \in DOMAIN changelog[r] : changelog'[r][i] = changelog[r][i]
          /\ \A i \in DOMAIN changelog'[r] : \A j \in DOMAIN changelog'[r] :
                (i < j /\ j > Len(changelog[r])) =>
                    changelog'[r][i] < changelog'[r][j]]_vars

\* C24: every height in a register's changelog has a value entry in the
\* backend under the ledger-value key of the register and that height.
C24_ChangelogEntriesHaveValues ==
    \A r \in DOMAIN changelog : \A i \in DOMAIN changelog[r] :
        <<r, changelog[r][i]>> \in DOMAIN db.ledgerVal

\* C21: Store.CommitBlock called with fewer results than transactions returns
\* the count error at once: the backend with its latest pointer and the
\* changelog are unchanged, and no checkpoint is begun or taken.
C21_CountMismatchWritesNothing ==
    [][(ret'.err = ErrCountMismatch /\ commits' # commits) =>
          /\ ret'.op = "StoreCommitBlock"
          /\ db' = db
          /\ changelog' = changelog
          /\ head' = head
          /\ worktree' = <<>>
          /\ lockFile' = lockFile
          /\ call' = Idle]_vars

C21_Witness ==
    /\ ret.op = "StoreCommitBlock"
    /\ ret.err = ErrCountMismatch
    /\ call = Idle
    /\ commits > 1

\* a checkpoint or a jump is in progress
InCheckpointOrJump ==
    \/ call.op = "JumpToContext"
    \/ call.at \in {"newCommit", "sync", "add", "commit", "deferred"}

C26_UnlockedDuringWorktreeOperations ==
    \A i \in DOMAIN worktree : ~worktree[i].locked

\* goroutine p is in the body of a mutating operation, of a locked query
InCriticalSection(p) ==
    callers[p].op \in Mutating /\ callers[p].at = "body"
HoldsShared(p) ==
    /\ callers[p].op \in Queries
    /\ LockMode(callers[p].op) = "shared"
    /\ callers[p].at \in {"body", "RLock2", "body2", "unwind"}

\* C27: no two mutating operations are inside their critical section at
\* once, and none is inside it while a query holds the shared lock.
C27_MutatorsExclusive ==
    \A p \in Callers : \A q \in Callers \ {p} :
        InCriticalSection(p) => ~InCriticalSection(q) /\ ~HoldsShared(q)

C27_Witness ==
    \E p \in Callers : \E q \in Callers \ {p} :
        /\ InCriticalSection(p)
        /\ callers[q].op \in Mutating
        /\ callers[q].at = "Lock"

\* C28: no exported query is in its body, reading the pending block or the
\* cached service key or writing a field of the facade, while a mutating
\* operation holds the exclusive lock.
C28_QueriesExcludeMutators ==
    \A p \in Callers :
        (/\ callers[p].op \in Queries
         /\ callers[p].at \in {"body", "body2"}
         /\ Reads(callers[p].op) \cup Writes(callers[p].op) # {}) =>
            mu.writer = 0

\* the operations that run transactions
Executing == {"ExecuteNextTransaction", "ExecuteBlock", "ExecuteAndCommitBlock"}

\* C29: a call of ExecuteNextTransaction, ExecuteBlock or
\* ExecuteAndCommitBlock in which the VM fails returns the VM's error with
\* nothing written to storage, the latest height and the list of pending
\* transactions as they were; a ResetPendingBlock that follows succeeds (the
\* store reading its latest block) and leaves an empty pending block on the
\* latest block, on which a new transaction is accepted and executed and
\* which can be committed.
C29_FatalLeavesRecoverableBlock ==
    [][/\ (ret'.op \in Executing /\ ret'.err = ErrVMFatal) =>
             /\ db' = db
             /\ changelog' = changelog
             /\ LatestBlock(db', dbOpen') = LatestBlock(db, dbOpen)
             /\ pendingBlock'.txIDs = pendingBlock.txIDs
       /\ (/\ ret.op \in Executing
           /\ ret.err = ErrVMFatal
           /\ ret'.op = "ResetPendingBlock"
           /\ faults' = faults) =>
             /\ ret'.err = OK
             /\ Empty(pendingBlock')
             /\ ~ExecutionStarted(pendingBlock')
             /\ pendingBlock'.height = db.latest + 1
             /\ commitBlock(pendingBlock', db, changelog, dbOpen, TRUE, TRUE,
                            1).err = OK
             /\ \A tx \in TxIDs :
                   TransactionByID(db, dbOpen, tx) = NotFound =>
                     LET added == addTransaction(pendingBlock', db, dbOpen, tx, TRUE)
                         run == executeNextTransaction(added.pb, db, changelog,
                                                       dbOpen, FALSE)
                     IN /\ added.err = OK
                        /\ run.err = OK
                        /\ commitBlock(run.pb, db, changelog, dbOpen, TRUE, TRUE,
                                       1).err = OK]_vars

C29_Witness ==
    /\ ret.op = "ExecuteBlock"
    /\ ret.err = ErrVMFatal
    /\ pendingBlock.index = 1
    /\ Size(pendingBlock) = 2

\* the next transaction of the pending block reverts when it is run
Reverts(pb, d, cl, open) ==
    /\ ~ExecutionComplete(pb)
    /\ VMRun(pb.txIDs[pb.index + 1], pbView(pb, d, cl, open)).errorCode # 0

\* C30: a transaction that reverts is not a failure of the call that runs
\* it: ExecuteNextTransaction returns no error and the transaction is
\* executed, with the error code in its result; ExecuteBlock fails only by
\* a VM failure or on a block already executed; a block that is executed
\* completely can be committed; and when a commit succeeds,
\* GetTransactionResult reports each reverted transaction of the block as
\* Sealed with an execution error.
C30_RevertIsNotCallFailure ==
    [][/\ (/\ ret'.op = "ExecuteNextTransaction"
           /\ ret'.err # ErrVMFatal
           /\ Reverts(pendingBlock, db, changelog, dbOpen)) =>
             /\ ret'.err = OK
             /\ pendingBlock'.index = pendingBlock.index + 1
             /\ pendingBlock'.results[pendingBlock.txIDs[pendingBlock.index + 1]]
                    .errorCode # 0
       /\ ret'.op = "ExecuteBlock" => ret'.err \in {OK, ErrVMFatal, ErrExhausted}
       /\ (/\ ret'.op \in {"ExecuteNextTransaction", "ExecuteBlock"}
           /\ ret'.err = OK
           /\ ExecutionComplete(pendingBlock')) =>
             commitBlock(pendingBlock', db', changelog', dbOpen', TRUE, TRUE,
                         1).err = OK
       /\ (ret'.op \in {"CommitBlock", "ExecuteAndCommitBlock"} /\ ret'.err = OK) =>
             /\ \A tx \in Range(sealed'.block.txIDs) :
                   db'.results[tx].errorCode # 0 =>
                     LET r == GetTransactionResult(pendingBlock', db', dbOpen', tx)
                     IN r.status = "Sealed" /\ r.error # 0
             /\ \A tx \in DOMAIN pendingBlock.results :
                   pendingBlock.results[tx].errorCode # 0 =>
                     LET r == GetTransactionResult(pendingBlock', db', dbOpen', tx)
                     IN /\ r.status = "Sealed"
                        /\ r.error = pendingBlock.results[tx].errorCode]_vars

C30_Witness ==
    /\ ret.op = "CommitBlock"
    /\ ret.err = OK
    /\ \E tx \in Range(sealed.block.txIDs) :
          /\ db.results[tx].errorCode # 0
          /\ GetTransactionResult(pendingBlock, db, dbOpen, tx).error # 0

\* C31: ResetPendingBlock, whatever state the pending block is in, replaces it
\* with a new empty block on which nothing has executed, anchored on the
\* latest committed block, and changes nothing in the committed storage; when
\* the latest block cannot be read it returns a storage error and the old
\* pending block stays.
C31_ResetReplacesPendingBlock ==
    [][ret'.op = "ResetPendingBlock" =>
         /\ db' = db /\ changelog' = changelog /\ applied' = applied
         /\ faults' = faults => ret'.err = OK
         /\ ret'.err = OK =>
              /\ Empty(pendingBlock') /\ ~ExecutionStarted(pendingBlock')
              /\ pendingBlock'.results = <<>> /\ pendingBlock'.delta = <<>>
              /\ pendingBlock'.events = <<>>
              /\ pendingBlock'.height = LatestBlock(db, TRUE).block.height + 1
              /\ pendingBlock'.parentID = BlockID(LatestBlock(db, TRUE).block)
              /\ pendingBlock'.viewHeight = LatestBlock(db, TRUE).block.height
         /\ ret'.err # OK =>
              ret'.err = ErrStorage /\ pendingBlock' = pendingBlock]_vars

\* a reset that failed on a block in the middle of its execution
C31_Witness ==
    /\ ret.op = "ResetPendingBlock" /\ ret.err = ErrStorage
    /\ ExecutionStarted(pendingBlock) /\ ~ExecutionComplete(pendingBlock)

\* the calls that execute a script
ScriptOps == {"ExecuteScript", "ExecuteScriptAtBlock"}

\* C32: ExecuteScript and ExecuteScriptAtBlock are read-only, also for a
\* script that writes registers: the committed blocks, the register values,
\* the changelog, the latest height and the pending block are the same after
\* the call as before it, and the same script run twice at the same height
\* with no commit in between gives the same result.
C32_ScriptsAreReadOnly ==
    [][ret'.op \in ScriptOps =>
         /\ db' = db /\ changelog' = changelog
         /\ pendingBlock' = pendingBlock /\ applied' = applied
         /\ LatestBlock(db', dbOpen') = LatestBlock(db, dbOpen)
         /\ (/\ ret.op \in ScriptOps
             /\ ret.script = ret'.script /\ ret.height = ret'.height
             /\ ret.err = OK /\ ret'.err = OK) => ret'.arg = ret.arg]_vars

\* the writing script has run on a block in which register a has a value
C32_Witness ==
    /\ ret.op \in ScriptOps /\ ret.err = OK
    /\ ret.script = "incr" /\ ret.arg = 2 /\ ret.height = 1

\* both runs have committed a block from the same committed state
RunsCompared ==
    /\ runs # NoRuns
    /\ runs[1].out # <<>> /\ runs[2].out # <<>>
    /\ runs[1].out.from = runs[2].out.from

AccountOps == {"GetAccount", "GetAccountAtBlock"}

\* C34: when the account lookup underlying GetAccount or GetAccountAtBlock
\* fails with an error other than account-not-found, the call returns a
\* non-nil error, never a success.
C34_LookupErrorIsReturned ==
    (ret.op \in AccountOps /\ ret.lookup # "ok") => ret.err \notin {OK, Panic}

\* C35: CreateAccount adds the transaction, executes the block and commits it
\* once: a call that returns an address advances the latest height by exactly
\* one block, the block that holds the account-creation transaction, and the
\* address is the one of the AccountCreated event.
C35_CreateAccountCommitsOnce ==
    [][(ret'.op = "CreateAccount" /\ ret'.err = OK) =>
         /\ db'.latest = db.latest + 1
         /\ IsIn(AcctTx(db.latest), db'.blocks[db'.latest].txIDs)
         /\ ret'.arg = AcctTx(db.latest)]_vars

\* a call is blocked in b.mu.Lock() or b.mu.RLock()
Waiting(p) == callers[p].at \in {"Lock", "RLock", "RLock2"}
\* a step of a call that is in progress
Progress == AcquireLock \/ AcquireRLock \/ CallNested \/ ReturnNested \/ Return

\* C36: no call of the facade can deadlock: with queries (ExecuteScript,
\* which takes the shared lock twice, among them) and mutators waiting for
\* the exclusive lock on a writer-preferring read-write mutex, every call
\* gets its lock and returns.  Stated for a finite run: whenever a call
\* waits for the mutex, some call in progress can take a step; the mutex is
\* released only by such steps, so a state without one is waited in forever.
C36_NoDeadlock ==
    (\E p \in Callers : Waiting(p)) => ENABLED Progress

\* C37: ExecuteBlock executes all the remaining transactions: on a block of
\* n >= 1 transactions of which k < n have executed it returns exactly n - k
\* results, in the order of the transactions, and leaves the block completely
\* executed (unless the VM fails); on an empty block it returns an empty list
\* and no error and changes nothing; on a completely executed block that is
\* not empty it returns PendingBlockTransactionsExhausted.
C37_ExecuteBlockRunsRemaining ==
    [][ret'.op = "ExecuteBlock" =>
         LET n == Size(pendingBlock)
             k == pendingBlock.index
         IN /\ Empty(pendingBlock) =>
                 /\ ret'.err = OK /\ ret'.results = <<>>
                 /\ pendingBlock' = pendingBlock /\ hist' = hist
                 /\ db' = db /\ changelog' = changelog
            /\ (n >= 1 /\ k = n) =>
                 ret'.err = ErrExhausted /\ pendingBlock' = pendingBlock
            /\ (n >= 1 /\ k < n /\ ret'.err # ErrVMFatal) =>
                 /\ ret'.err = OK
                 /\ Len(ret'.results) = n - k
                 /\ \A i \in 1..(n - k) :
                      ret'.results[i] =
                        pendingBlock'.results[pendingBlock.txIDs[k + i]]
                 /\ pendingBlock'.txIDs = pendingBlock.txIDs
                 /\ pendingBlock'.index = n
                 /\ ExecutionComplete(pendingBlock')]_vars

\* ExecuteBlock has finished a block of two transactions, one of which had
\* been executed before the call
C37_Witness ==
    /\ ret.op = "ExecuteBlock" /\ ret.err = OK
    /\ Len(ret.results) = 1 /\ Size(pendingBlock) = 2
    /\ pendingBlock.index = 2

\* C38: the in-memory changelog and the copy persisted in the backend never
\* differ after a completed store operation, a CommitBlock or an
\* InsertLedgerDelta whose backend transaction failed included.
C38_ChangelogMatchesPersisted ==
    dbOpen =>
      /\ DOMAIN changelog = DOMAIN db.ledgerClog
      /\ \A r \in DOMAIN db.ledgerClog : db.ledgerClog[r] = changelog[r]

\* C39: the block-id index is consistent with the height index: for every
\* id for which BlockByID succeeds, the block returned has that id and is the
\* block stored at its own height, also after a block was stored at a height
\* that held another block.
C39_BlockByIDReturnsThatBlock ==
    \A id \in DOMAIN db.blockIDs :
      LET found(r) ==
            r.err = OK =>
              /\ BlockID(r.block) = id
              /\ BlockByHeight(db, dbOpen, r.block.height) = r
      IN found(BlockByID(db, dbOpen, id))

\* a SendTransaction returns its response in this step
Responds ==
    /\ ret'.op = "SendTransaction"
    /\ \/ \E p \in Callers : sends[p].at = "responding" /\ sends'[p] = NotSending
       \/ ret'.err # OK /\ sends' = sends /\ automine' = automine
\* a SendTransaction goes on to its response without calling commitBlock
SkipsCommit ==
    \E p \in Callers :
      sends[p].at = "added" /\ sends'[p].at = "responding" /\ ~sends'[p].mined

\* C40: in the server backend, with automine enabled every SendTransaction
\* whose AddTransaction succeeded calls ExecuteAndCommitBlock once before the
\* response, so that when the response arrives the transaction is sealed and
\* the pending block is empty; when AddTransaction fails, or automine is
\* disabled, SendTransaction executes nothing and commits nothing.
C40_AutomineSealsBeforeResponse ==
    [][/\ (Responds /\ ret'.err = OK /\ ret'.mined) =>
            /\ ret'.arg \in db'.txs
            /\ Empty(pendingBlock')
       /\ (SkipsCommit \/ (Responds /\ ret'.err # OK)) =>
            /\ db' = db /\ changelog' = changelog
            /\ hist'.runs = hist.runs
            /\ pendingBlock' = pendingBlock]_vars

====
